---------------------------- MODULE Spec2Model ----------------------------
(***************************************************************************)
(* State-machine model of the Akane Discord bot (src/bot.py): the          *)
(* on_message pipeline (moderation, auto-reply, chat responder with its    *)
(* daily quota gate, XP grant), the generation call and the per-guild      *)
(* settings it reads.  Every coroutine is cut at its await points: what    *)
(* runs between two awaits is one atomic action of the asyncio event loop. *)
(***************************************************************************)
EXTENDS Integers, Sequences, FiniteSets, TLC

(***************************************************************************)
(* Program constants                                                       *)
(***************************************************************************)
DAILY_MESSAGE_LIMIT == 100

NORMAL_CHAT_MAX_TOKENS == 1500

REGULATION_ANALYSIS_MAX_TOKENS == 2000

\* OpenAIConfig.GPT_MODEL = "gpt-5.1"
GPT_MODEL == << "gpt-5", ".1" >>

\* Asia/Tokyo is UTC+9 all year round.
JST_OFFSET == 9

\* handle_chat sends a reply as a file when len(resp) exceeds this.
FILE_THRESHOLD == 1900

\* len("APIエラーが発生しました。")
APOLOGY_LEN == 14

\* amount of XP on_message grants per message
XP_PER_MESSAGE == 10

\* reaction.count >= 10
STAR_THRESHOLD == 10

(***************************************************************************)
(* Bounds of the model                                                     *)
(***************************************************************************)
\* message events delivered in one behaviour of Spec / SpecRace
MaxMessages == 2

\* message events delivered in one behaviour of SpecQuota
MaxSeqMessages == 102

\* the clock stops advancing here (hours since the epoch, UTC)
MaxNow == 24

\* hours the clock advances in one Tick
TickHours == 6

\* longest run of consecutive failures the provider opposes to one request
MaxFailures == 2

\* longest text given to the analyzer
MaxTextLen == 3

\* reminders created by /remind
MaxReminders == 2

(***************************************************************************)
(* Value domains                                                           *)
(***************************************************************************)
Users == {"u1", "u2"}

BotUser == "akane"

Guilds == {"g1"}

Channels == {"c1", "c2"}

\* Python's None / SQL NULL as a value
None == "None"

\* fetchone() returns the row as a tuple, or nothing: the empty tuple here
NoRow == << >>

\* A message text is a sequence of tokens: a mention of the bot ("<@id>"),
\* white space, ordinary text, a Discord invite link.
Contents ==
  { <<"hi">>, <<"mention">>, <<"mention", "sp">>, <<"mention", "sp", "hi">>,
    <<"invite">>, <<"mention", "sp", "invite">> }

\* texts an administrator registers as auto-reply triggers
Triggers == { <<"mention", "sp", "hi">> }

\* lengths of the texts the provider generates: short, at and over the file
\* threshold, and over the 2000 characters Discord accepts in one message
RespLens == {1, FILE_THRESHOLD, FILE_THRESHOLD + 1, 2001}

Handlers == {1, 2}

(***************************************************************************)
(* Pure helpers                                                            *)
(***************************************************************************)
\* datetime.now(JST).strftime('%Y-%m-%d'): the calendar day in Tokyo of the
\* instant t (hours since the epoch, UTC), as a day number.
JstDate(t) == (t + JST_OFFSET) \div 24

Days == 0 .. JstDate(MaxNow + TickHours)

\* re.sub(r'<@!?\d+>', '', content)
RemoveMentions(content) == SelectSeq(content, LAMBDA tok : tok # "mention")

RECURSIVE LStrip(_)
LStrip(s) ==
  IF s # <<>> /\ Head(s) \in {"sp", "nl"} THEN LStrip(Tail(s)) ELSE s

RECURSIVE RStrip(_)
RStrip(s) ==
  IF s # <<>> /\ s[Len(s)] \in {"sp", "nl"}
  THEN RStrip(SubSeq(s, 1, Len(s) - 1)) ELSE s

\* str.strip()
Strip(s) == RStrip(LStrip(s))

\* handle_chat's cleaned text
CleanContentNoStrip(content) == RemoveMentions(content)

CleanContent(content) == Strip(RemoveMentions(content))

\* self.user in message.mentions (Discord fills mentions from the tokens)
MentionsBot(content) == \E i \in 1 .. Len(content) : content[i] = "mention"

\* re.search(r'(discord\.gg|discord\.com\/invite)\/', content)
HasInvite(content) == \E i \in 1 .. Len(content) : content[i] = "invite"

\* any(k in message for k in self.config.REGULATION_KEYWORDS): "reg" stands
\* for a piece of text that holds one of the keywords, "kisei" for the
\* keyword '規制' itself
has_regulation(message) ==
  \E i \in 1 .. Len(message) : message[i] \in {"reg", "kisei"}

\* any(k in message for k in self.config.QUESTION_KEYWORDS)
has_question(message) == \E i \in 1 .. Len(message) : message[i] = "qkw"

\* the text up to its first newline: what '.*' can cover from '^'
RECURSIVE FirstLine(_)
FirstLine(s) ==
  IF s = <<>> \/ Head(s) = "nl" THEN <<>> ELSE << Head(s) >> \o FirstLine(Tail(s))

\* re.search(r'.*？$', m), re.search(r'.*\?$', m): '$' matches at the end of
\* the string and before a newline that ends the string
SearchEndsWithQuestionMark(message) ==
  LET n == Len(message) IN
    /\ n > 0
    /\ \/ message[n] = "qmark"
       \/ n > 1 /\ message[n] = "nl" /\ message[n - 1] = "qmark"

\* re.search(r'^.*ですか.*', m) and its two siblings: '^' is the start of the
\* string and '.' matches no newline, so the particle is in the first line
SearchInterrogativeParticle(message) ==
  \E i \in 1 .. Len(FirstLine(message)) : FirstLine(message)[i] = "desuka"

\* any(re.search(p, message) for p in question_patterns)
question_patterns(message) ==
  SearchEndsWithQuestionMark(message) \/ SearchInterrogativeParticle(message)

\* [^。！？\n]: what a group of extract_regulation_target can hold
InGroupClass(tok) == tok \notin {"qmark", "nl"}

GroupAt(message, i, k) ==
  /\ k >= 1
  /\ i + k - 1 <= Len(message)
  /\ \A j \in i .. i + k - 1 : InGroupClass(message[j])

\* r'([^。！？\n]+?)への?(?:表現)?規制': the matches << i, k >>, the group at i
\* and k tokens long (the texts of the model do not hold '表現')
PatternHe(message) ==
  {p \in (1 .. Len(message)) \X (1 .. Len(message)) :
     /\ GroupAt(message, p[1], p[2])
     /\ p[1] + p[2] + 1 <= Len(message)
     /\ message[p[1] + p[2]] = "he"
     /\ message[p[1] + p[2] + 1] = "kisei"}

\* r'([^。！？\n]+?)を?規制'
PatternWo(message) ==
  {p \in (1 .. Len(message)) \X (1 .. Len(message)) :
     /\ GroupAt(message, p[1], p[2])
     /\ \/ /\ p[1] + p[2] + 1 <= Len(message)
           /\ message[p[1] + p[2]] = "wo"
           /\ message[p[1] + p[2] + 1] = "kisei"
        \/ /\ p[1] + p[2] <= Len(message)
           /\ message[p[1] + p[2]] = "kisei"}

\* r'([^。！？\n]+?)について.*規制': '.' matches no newline
PatternNitsuite(message) ==
  {p \in (1 .. Len(message)) \X (1 .. Len(message)) :
     /\ GroupAt(message, p[1], p[2])
     /\ p[1] + p[2] <= Len(message)
     /\ message[p[1] + p[2]] = "nitsuite"
     /\ \E j \in p[1] + p[2] + 1 .. Len(message) :
          /\ message[j] = "kisei"
          /\ \A l \in p[1] + p[2] + 1 .. j - 1 : message[l] # "nl"}

\* re.search(pattern, message): of the matches, the one with the leftmost
\* start, and at that start the shortest group ('+?' is lazy); << >> for no
\* match, << group >> for a match
Search(matches, message) ==
  IF matches = {} THEN << >>
  ELSE LET m == CHOOSE a \in matches :
                  \A b \in matches :
                    a[1] < b[1] \/ (a[1] = b[1] /\ a[2] <= b[2])
       IN << SubSeq(message, m[1], m[1] + m[2] - 1) >>

\* return "対象の表現"
DefaultTarget == << "taishou" >>

\* for pattern in patterns: m = re.search(pattern, message);
\* if m: return m.group(1).strip()
extract_regulation_target(message) ==
  LET he == Search(PatternHe(message), message)
      wo == Search(PatternWo(message), message)
      nitsuite == Search(PatternNitsuite(message), message)
  IN IF he # << >> THEN Strip(he[1])
     ELSE IF wo # << >> THEN Strip(wo[1])
     ELSE IF nitsuite # << >> THEN Strip(nitsuite[1])
     ELSE DefaultTarget

\* return has_regulation and (has_question or any(re.search(...)))
detect_any_indicator(message) ==
  has_regulation(message) \/ has_question(message) \/ question_patterns(message)

detect_regulation_question(message) ==
  has_regulation(message) /\ (has_question(message) \/ question_patterns(message))

\* is_reasoning = "gpt-5" in model or "o1" in model: a model id is the
\* sequence of the pieces it is made of
is_reasoning_gpt5_only(model) == \E i \in 1 .. Len(model) : model[i] = "gpt-5"

is_reasoning(model) == \E i \in 1 .. Len(model) : model[i] \in {"gpt-5", "o1"}

\* params = {"model": ..., "messages": [...]} and the family of parameters
\* the model tag selects (temperature 0.7 is kept in tenths)
call_gpt_params(model, max_tokens) ==
  IF is_reasoning(model)
  THEN [model |-> model, messages |-> "system+user",
        max_completion_tokens |-> max_tokens, reasoning_effort |-> "medium"]
  ELSE [model |-> model, messages |-> "system+user",
        max_tokens |-> max_tokens, temperature |-> 7]

\* count >= BotConfig.DAILY_MESSAGE_LIMIT
QuotaExceededOffByOne(count) == count > DAILY_MESSAGE_LIMIT

QuotaExceeded(count) == count >= DAILY_MESSAGE_LIMIT

\* count = res[0] if res else 0
CountOf(res) == IF res = NoRow THEN 0 ELSE res[1]

\* a threshold that has to be passed, not reached
LevelsUpStrict(xp, level) == xp > level * 100

\* xp >= level * 100
LevelsUp(xp, level) == xp >= level * 100

Apology == [kind |-> "apology", len |-> APOLOGY_LEN]

Generated(n) == [kind |-> "gen", len |-> n]

NoResp == [kind |-> "none", len |-> 0]


(***************************************************************************)
(* Inbound events                                                          *)
(***************************************************************************)
GuildMessages ==
  [author : Users, bot : BOOLEAN, guild : Guilds, admin : BOOLEAN,
   channel : Channels, content : Contents]

\* a direct message has no guild, hence no guild permissions
DirectMessages ==
  [author : Users, bot : {FALSE}, guild : {None}, admin : {FALSE},
   channel : {"dm"}, content : Contents]

Messages == GuildMessages \cup DirectMessages

NoMessage ==
  [author |-> None, bot |-> FALSE, guild |-> None, admin |-> FALSE,
   channel |-> None, content |-> <<>>]

\* reaction-added events: who reacted, whether the emoji is a key of
\* FLAG_MAPPING, whether the message reacted to has text
Reactions ==
  [user : Users, bot : BOOLEAN, flag : BOOLEAN, has_content : BOOLEAN]

NoReaction == [user |-> None, bot |-> FALSE, flag |-> FALSE, has_content |-> FALSE]

(***************************************************************************)
(* State                                                                   *)
(***************************************************************************)
VARIABLES
  now,          \* wall clock: hours since the epoch, UTC
  client,       \* TRUE iff OPENAI_API_KEY was set and the OpenAI client built
  usage_log,    \* table usage_log: (user_id, date) -> <<count>>, or NoRow
  settings,     \* table settings: guild_id -> <<auto_chat_channel_id,
                \* starboard_channel_id>>, or NoRow
  auto_replies, \* table auto_replies: set of (guild_id, trigger) rows
  users,        \* table users: user_id -> <<xp, level>>, or NoRow
  task,         \* the on_message coroutine each handler slot is running
  delivered,    \* number of message events dispatched so far
  usage0,       \* history: usage_log as it was at start-up
  accepted,     \* history: (user, day) -> messages the quota gate accepted
  probe,        \* the last call of a pure function: its arguments and result
  starboard_log,   \* table starboard_log: the message ids posted
  starboard_posts, \* history: message id -> posts made in the starboard channel
  hearts,          \* Discord: message id -> its count of heart reactions
  reminders,       \* table reminders: rows [id, channel, end_time]
  reminder_seq,    \* the AUTOINCREMENT counter of table reminders
  created,         \* history: reminder id -> the row /remind inserted
  reminded,        \* history: reminder id -> the times it was delivered at
  reminder_loop,   \* the reminder_task loop: where it is, and its batch
  member_roles,    \* Discord: the (member, role) pairs in force
  last_reaction,   \* history: member -> the last reaction event Discord sent
  embed            \* Discord: the fields of the embed of the /schedule message

star_vars == << starboard_log, starboard_posts, hearts >>

remind_vars == << reminders, reminder_seq, created, reminded, reminder_loop >>

role_vars == << member_roles, last_reaction >>

\* what the features outside on_message keep: the chat pipeline leaves them
\* alone
features == << star_vars, remind_vars, role_vars, embed >>

vars ==
  << now, client, usage_log, settings, auto_replies, users, task, delivered,
     usage0, accepted, probe, features >>

\* pc: the await the coroutine is suspended at.  msg, auto_res,
\* auto_chat_ch_id, today, res, resp, row: on_message's, handle_chat's,
\* check_usage's and add_xp's locals.  typing: the channel's typing indicator
\* is on.  History of the coroutine: sent (what it sent to Discord, in order),
\* calls (provider invocations), oracle (failures the provider opposed), gate
\* (check_usage's verdict), at (the clock when check_usage computed today),
\* exc and raised_at (the exception that escaped
\* on_message, and the await it was raised at), prompt and max_tokens (the
\* system prompt and the token budget handle_chat passed to call_gpt), chunks
\* (the lengths of the plain-text messages that carried resp, in order).  rx:
\* the reaction on_reaction_add was started for.  dispatched: on_message
\* handed the message to process_commands.  args: the arguments of the
\* database call or of the event the coroutine was started for.
IdleTask ==
  [pc |-> "idle", msg |-> NoMessage, auto_res |-> None,
   auto_chat_ch_id |-> None, at |-> 0, today |-> 0, res |-> NoRow, oracle |-> 0,
   resp |-> NoResp, row |-> NoRow, sent |-> <<>>, calls |-> 0, exc |-> None,
   raised_at |-> None, gate |-> None, typing |-> FALSE, prompt |-> None,
   max_tokens |-> 0, chunks |-> <<>>, rx |-> NoReaction, dispatched |-> FALSE,
   args |-> << >>]

Busy(h) == task[h].pc \notin {"idle", "done"}

\* the coroutine of handler h ends: normally, or with exception e escaping
\* on_message into the event dispatcher
\* (its locals res and row die with it)
Return(t) ==
  [t EXCEPT !.pc = "done", !.typing = FALSE, !.res = NoRow, !.row = NoRow]

Raise(t, e) == [Return(t) EXCEPT !.exc = e, !.raised_at = t.pc]

\* await self.process_commands(message): the last statement of on_message;
\* no prefix command is registered, so the dispatch finds nothing to invoke
process_commands(t) == Return([t EXCEPT !.dispatched = TRUE])

\* no pure function has been called
NoProbe ==
  [fn |-> "none", message |-> <<>>, result |-> FALSE, model |-> <<>>,
   max_tokens |-> 0, params |-> [model |-> <<>>], mode |-> None,
   target |-> <<>>]

\* classify(text): the analyzer's two functions of the text, giving the
\* persona and the target of the regulation
classify_by_triggers(text) ==
  [mode |-> IF detect_regulation_question(text) \/ auto_replies # {}
            THEN "regulation" ELSE "casual",
   target |-> extract_regulation_target(text)]

classify(text) ==
  [mode |-> IF detect_regulation_question(text) THEN "regulation" ELSE "casual",
   target |-> extract_regulation_target(text)]

\* messages that collect reactions
StarMessages == {"m1"}

\* table reaction_roles as /rr_add left it: (message_id, emoji, role_id)
reaction_roles == { << "m1", "thumb", "r1" >> }

\* ids the AUTOINCREMENT key of reminders can take
ReminderIds == 1 .. MaxReminders

\* reminder_task between two runs.  rows: what check_reminders returned and
\* the loop has not sent yet; at: the time check_reminders read; failed: the
\* id of the reminder whose send raised (0: none); stopped: the exception
\* ended the task
IdleLoop ==
  [pc |-> "sleep", rows |-> <<>>, at |-> 0, failed |-> 0, stopped |-> FALSE]

\* no /schedule message has been posted
NoEmbed == << >>

\* the database as init_database finds it: tables persist across restarts
PersistedCounts ==
  {NoRow, << DAILY_MESSAGE_LIMIT - 1 >>, << DAILY_MESSAGE_LIMIT >>}

PersistedXp == {NoRow, << 90, 1 >>}

InitCommon ==
  /\ now = 0
  /\ settings = [g \in Guilds |-> NoRow]
  /\ auto_replies = {}
  /\ task = [h \in Handlers |-> IdleTask]
  /\ delivered = 0
  /\ accepted = [k \in Users \X Days |-> 0]
  /\ probe = NoProbe
  /\ starboard_log = {}
  /\ starboard_posts = [m \in StarMessages |-> 0]
  /\ hearts = [m \in StarMessages |-> STAR_THRESHOLD - 2]
  /\ reminders = {}
  /\ reminder_seq = 0
  /\ created = [id \in ReminderIds |-> NoRow]
  /\ reminded = [id \in ReminderIds |-> <<>>]
  /\ reminder_loop = IdleLoop
  /\ member_roles = {}
  /\ last_reaction = [u \in Users |-> None]
  /\ embed = NoEmbed

(***************************************************************************)
(* on_message, cut at its awaits                                           *)
(***************************************************************************)
SetTask(h, t) == task' = [task EXCEPT ![h] = t]

\* The dispatcher starts on_message(m) in slot h; the coroutine runs to its
\* first await: the author/guild filter and check_moderation's synchronous
\* part.
on_message_ignores_dm_only(m) == m.guild = None

on_message_ignores(m) == m.bot \/ m.guild = None

\* if message.author.guild_permissions.administrator: return False
\* if re.search(r'(discord\.gg|discord\.com\/invite)\/', message.content): ...
check_moderation_no_exemption(m) == HasInvite(m.content)

check_moderation_hits(m) == ~m.admin /\ HasInvite(m.content)

on_message(h, m) ==
  /\ ~Busy(h)
  /\ LET t == [IdleTask EXCEPT !.msg = m] IN
       SetTask(h,
         IF on_message_ignores(m) THEN Return(t)
         ELSE IF check_moderation_hits(m) THEN [t EXCEPT !.pc = "mod_delete"]
         ELSE [t EXCEPT !.pc = "get_auto_reply"])
  /\ delivered' = delivered + 1
  /\ UNCHANGED << now, client, usage_log, settings, auto_replies, users,
                  usage0, accepted, probe, features >>

\* await message.delete()
check_moderation_delete(h, ok) ==
  /\ task[h].pc = "mod_delete"
  /\ SetTask(h, IF ok THEN [task[h] EXCEPT !.pc = "mod_send"]
                ELSE Raise(task[h], "HTTPException"))
  /\ UNCHANGED << now, client, usage_log, settings, auto_replies, users,
                  delivered, usage0, accepted, probe, features >>

\* await message.channel.send("... 宣伝は禁止やで！"); return True
check_moderation_send(h, ok) ==
  /\ task[h].pc = "mod_send"
  /\ SetTask(h, IF ok THEN Return([task[h] EXCEPT !.sent = Append(@, "warning")])
                ELSE Raise(task[h], "HTTPException"))
  /\ UNCHANGED << now, client, usage_log, settings, auto_replies, users,
                  delivered, usage0, accepted, probe, features >>

\* auto_res = await self.db.get_auto_reply(message.guild.id, message.content)
get_auto_reply(h) ==
  /\ task[h].pc = "get_auto_reply"
  /\ SetTask(h,
       IF << task[h].msg.guild, task[h].msg.content >> \in auto_replies
       THEN [task[h] EXCEPT !.pc = "auto_send", !.auto_res = "response"]
       ELSE [task[h] EXCEPT !.pc = "get_setting"])
  /\ UNCHANGED << now, client, usage_log, settings, auto_replies, users,
                  delivered, usage0, accepted, probe, features >>

\* the response is sent and on_message goes on to the auto-chat lookup
auto_reply_send_and_continue(h, ok) ==
  /\ task[h].pc = "auto_send"
  /\ SetTask(h, IF ok
                THEN [task[h] EXCEPT !.sent = Append(@, "auto_reply"),
                                     !.pc = "get_setting"]
                ELSE Raise(task[h], "HTTPException"))
  /\ UNCHANGED << now, client, usage_log, settings, auto_replies, users,
                  delivered, usage0, accepted, probe, features >>

\* await message.channel.send(auto_res); return
auto_reply_send(h, ok) ==
  /\ task[h].pc = "auto_send"
  /\ SetTask(h, IF ok THEN Return([task[h] EXCEPT !.sent = Append(@, "auto_reply")])
                ELSE Raise(task[h], "HTTPException"))
  /\ UNCHANGED << now, client, usage_log, settings, auto_replies, users,
                  delivered, usage0, accepted, probe, features >>

\* the columns of settings the model keeps, by position in a row
Columns == {1, 2}

\* set_channel_setting's write: UPDATE settings SET {col} = ? on the row the
\* guild has, INSERT INTO settings (guild_id, {col}) otherwise (the other
\* columns of a new row are NULL)
SetColumn(row, col, value) ==
  IF row = NoRow
    THEN << IF col = 1 THEN value ELSE None, IF col = 2 THEN value ELSE None >>
    ELSE [row EXCEPT ![col] = value]

\* get_channel_setting(g, col): row[0] if row else None
ColumnSetting(g, col) ==
  IF settings[g] = NoRow THEN None ELSE settings[g][col]

\* get_channel_setting(guild, "auto_chat_channel_id")
ChannelSetting(g) == ColumnSetting(g, 1)

\* is_auto_chat = (message.channel.id == auto_chat_ch_id)
IsAutoChat(m, auto_chat_ch_id) == m.channel = auto_chat_ch_id

\* if self.user in message.mentions or is_auto_chat: await self.handle_chat(..)
ChatsOnMentionOnly(m, auto_chat_ch_id) == MentionsBot(m.content)

Chats(m, auto_chat_ch_id) ==
  MentionsBot(m.content) \/ IsAutoChat(m, auto_chat_ch_id)

\* if not content: return
IsEmpty(content) == CleanContent(content) = <<>>

\* auto_chat_ch_id = await self.db.get_channel_setting(...), then on to the
\* next await: either add_xp's SELECT, or (through handle_chat, whose text is
\* not empty) check_usage's SELECT, which has already computed today.
get_channel_setting(h) ==
  /\ task[h].pc = "get_setting"
  /\ LET m == task[h].msg
         t == [task[h] EXCEPT !.auto_chat_ch_id = ChannelSetting(m.guild)]
     IN SetTask(h,
          IF Chats(m, t.auto_chat_ch_id) /\ ~IsEmpty(m.content)
          THEN [t EXCEPT !.pc = "usage_select", !.at = now,
                          !.today = JstDate(now)]
          ELSE [t EXCEPT !.pc = "xp_select"])
  /\ UNCHANGED << now, client, usage_log, settings, auto_replies, users,
                  delivered, usage0, accepted, probe, features >>

(***************************************************************************)
(* check_usage (the quota gate), cut at its awaits                         *)
(***************************************************************************)
\* WHERE user_id = ? AND date = ?
KeyWithoutDate(t) == << t.msg.author, 0 >>

Key(t) == << t.msg.author, t.today >>

\* SELECT count FROM usage_log WHERE user_id = ? AND date = ?; fetchone;
\* if count >= DAILY_MESSAGE_LIMIT: return False
check_usage_select(h) ==
  /\ task[h].pc = "usage_select"
  /\ LET res == usage_log[Key(task[h])] IN
       SetTask(h,
         IF QuotaExceeded(CountOf(res))
         THEN [task[h] EXCEPT !.pc = "reply_quota", !.res = res,
                              !.gate = "rejected"]
         ELSE [task[h] EXCEPT !.pc = "usage_write", !.res = res])
  /\ UNCHANGED << now, client, usage_log, settings, auto_replies, users,
                  delivered, usage0, accepted, probe, features >>

\* UPDATE usage_log SET count = count + 1 ...: SQL evaluates count + 1 on the
\* row as it is when the statement runs
UpdateCountRestart(k, res) == [usage_log EXCEPT ![k] = << 1 >>]

UpdateCount(k, res) == [usage_log EXCEPT ![k] = << @[1] + 1 >>]

\* if res: UPDATE ... else: INSERT ... VALUES (?, ?, 1); commit; return True.
\* UNIQUE(user_id, date) makes the INSERT raise IntegrityError when another
\* handler has inserted the row since the SELECT.  Nothing in handle_chat or
\* on_message catches it.
check_usage_write(h) ==
  /\ task[h].pc = "usage_write"
  /\ LET t == task[h]
         k == Key(t)
     IN IF t.res # NoRow
        THEN /\ usage_log' = UpdateCount(k, t.res)
             /\ accepted' = [accepted EXCEPT ![k] = @ + 1]
             /\ SetTask(h, [t EXCEPT !.pc = "typing", !.gate = "accepted"])
        ELSE IF usage_log[k] # NoRow
        THEN /\ SetTask(h, Raise(t, "IntegrityError"))
             /\ UNCHANGED << usage_log, accepted >>
        ELSE /\ usage_log' = [usage_log EXCEPT ![k] = << 1 >>]
             /\ accepted' = [accepted EXCEPT ![k] = @ + 1]
             /\ SetTask(h, [t EXCEPT !.pc = "typing", !.gate = "accepted"])
  /\ UNCHANGED << now, client, settings, auto_replies, users, delivered,
                  usage0, probe, features >>

(***************************************************************************)
(* handle_chat and call_gpt                                                *)
(***************************************************************************)
\* await message.reply("今日の会話回数は終わりや。"); return
handle_chat_reply_quota(h, ok) ==
  /\ task[h].pc = "reply_quota"
  /\ SetTask(h, IF ok THEN [task[h] EXCEPT !.pc = "xp_select",
                                           !.sent = Append(@, "quota")]
                ELSE Raise(task[h], "HTTPException"))
  /\ UNCHANGED << now, client, usage_log, settings, auto_replies, users,
                  delivered, usage0, accepted, probe, features >>

\* handle_chat's call of call_gpt: the one prompt it builds and
\* max_tokens=self.config.NORMAL_CHAT_MAX_TOKENS, whatever the text
handle_chat_prompt(t) == "casual"

handle_chat_max_tokens(t) == NORMAL_CHAT_MAX_TOKENS

handle_chat_typing_not_held(h, ok) ==
  /\ task[h].pc = "typing"
  /\ SetTask(h, IF ok THEN [task[h] EXCEPT !.pc = "gpt_wait", !.typing = FALSE,
                                           !.prompt = handle_chat_prompt(task[h]),
                                           !.max_tokens = handle_chat_max_tokens(task[h])]
                ELSE Raise(task[h], "HTTPException"))
  /\ UNCHANGED << now, client, usage_log, settings, auto_replies, users,
                  delivered, usage0, accepted, probe, features >>

\* async with message.channel.typing(): the indicator is requested, then
\* call_gpt builds its params and hands the provider call to the executor
handle_chat_typing(h, ok) ==
  /\ task[h].pc = "typing"
  /\ SetTask(h, IF ok THEN [task[h] EXCEPT !.pc = "gpt_wait", !.typing = TRUE,
                                           !.prompt = handle_chat_prompt(task[h]),
                                           !.max_tokens = handle_chat_max_tokens(task[h])]
                ELSE Raise(task[h], "HTTPException"))
  /\ UNCHANGED << now, client, usage_log, settings, auto_replies, users,
                  delivered, usage0, accepted, probe, features >>

\* attempts call_gpt makes for one request: there is no retry loop
ATTEMPTS == 1

\* The provider opposes `failing` consecutive failures to the request before
\* it would answer with a text of `n` characters.  call_gpt's result after
\* its attempts: the generated text, or the apology of its except clause.
\* With no client, client.chat raises AttributeError on every attempt.
call_gpt_result(hasClient, failing, n) ==
  IF hasClient /\ failing < ATTEMPTS THEN Generated(n) ELSE Apology

\* provider invocations call_gpt makes for the request
call_gpt_calls(hasClient, failing) ==
  IF ~hasClient THEN 0
  ELSE IF failing < ATTEMPTS THEN failing + 1 ELSE ATTEMPTS

\* if len(resp) > 1900: discord.File(io.BytesIO(...)): module io is never
\* imported, so the expression raises NameError
TooLongForDiscordOnly(resp) == resp.len > 2000

TooLong(resp) == resp.len > FILE_THRESHOLD

\* resp = await ai_logic.call_gpt(...); if len(resp) > 1900: ... else: reply
call_gpt_return(h, failing, n) ==
  /\ task[h].pc = "gpt_wait"
  /\ LET resp == call_gpt_result(client, failing, n)
         t == [task[h] EXCEPT !.resp = resp, !.oracle = failing,
                              !.calls = @ + call_gpt_calls(client, failing)]
     IN SetTask(h, IF TooLong(resp) THEN Raise(t, "NameError")
                   ELSE [t EXCEPT !.pc = "reply"])
  /\ UNCHANGED << now, client, usage_log, settings, auto_replies, users,
                  delivered, usage0, accepted, probe, features >>

\* await message.reply(resp)
handle_chat_reply(h, ok) ==
  /\ task[h].pc = "reply"
  /\ SetTask(h, IF ok THEN [task[h] EXCEPT !.pc = "xp_select", !.typing = FALSE,
                                           !.sent = Append(@, task[h].resp.kind),
                                           !.chunks = << task[h].resp.len >>]
                ELSE Raise(task[h], "HTTPException"))
  /\ UNCHANGED << now, client, usage_log, settings, auto_replies, users,
                  delivered, usage0, accepted, probe, features >>

(***************************************************************************)
(* add_xp and the level-up notice                                          *)
(***************************************************************************)
\* SELECT xp, level FROM users WHERE user_id = ?
add_xp_select(h) ==
  /\ task[h].pc = "xp_select"
  /\ SetTask(h, [task[h] EXCEPT !.pc = "xp_write",
                                !.row = users[task[h].msg.author]])
  /\ UNCHANGED << now, client, usage_log, settings, auto_replies, users,
                  delivered, usage0, accepted, probe, features >>

\* xp += amount; if xp >= level * 100: xp = 0; level += 1
AddXp(row, amount) ==
  IF LevelsUp(row[1] + amount, row[2])
  THEN << 0, row[2] + 1 >>
  ELSE << row[1] + amount, row[2] >>

\* UPDATE users SET xp = ?, level = ? (the values computed from the SELECT)
\* or INSERT (user_id is the PRIMARY KEY: IntegrityError if the row exists
\* by now); commit; then the level-up notice or process_commands, which finds
\* no prefix command registered.
add_xp_write(h) ==
  /\ task[h].pc = "xp_write"
  /\ LET t == task[h]
         u == t.msg.author
     IN IF t.row # NoRow
        THEN /\ users' = [users EXCEPT ![u] = AddXp(t.row, XP_PER_MESSAGE)]
             /\ SetTask(h,
                  IF LevelsUp(t.row[1] + XP_PER_MESSAGE, t.row[2])
                  THEN [t EXCEPT !.pc = "levelup_send"]
                  ELSE process_commands(t))
        ELSE IF users[u] # NoRow
        THEN /\ SetTask(h, Raise(t, "IntegrityError"))
             /\ UNCHANGED users
        ELSE /\ users' = [users EXCEPT ![u] = << XP_PER_MESSAGE, 1 >>]
             /\ SetTask(h, process_commands(t))
  /\ UNCHANGED << now, client, usage_log, settings, auto_replies, delivered,
                  usage0, accepted, probe, features >>

\* await message.channel.send("🎉 ... レベルアップしたで！")
levelup_send(h, ok) ==
  /\ task[h].pc = "levelup_send"
  /\ SetTask(h, IF ok
                THEN process_commands([task[h] EXCEPT !.sent = Append(@, "levelup")])
                ELSE Raise(task[h], "HTTPException"))
  /\ UNCHANGED << now, client, usage_log, settings, auto_replies, users,
                  delivered, usage0, accepted, probe, features >>

(***************************************************************************)
(* Administrator commands and the clock                                    *)
(***************************************************************************)
\* /set_auto_chat: set_channel_setting(guild, "auto_chat_channel_id", c):
\* UPDATE the guild's row if the SELECT found one, INSERT it otherwise
set_auto_chat(g, c) ==
  /\ settings' = [settings EXCEPT ![g] = SetColumn(@, 1, c)]
  /\ UNCHANGED << now, client, usage_log, auto_replies, users, task,
                  delivered, usage0, accepted, probe, features >>

\* /disable_auto_chat: UPDATE settings SET auto_chat_channel_id = NULL
\* WHERE guild_id = ?  (no row, no change)
disable_auto_chat(g) ==
  /\ settings[g] # NoRow
  /\ settings' = [settings EXCEPT ![g] = SetColumn(@, 1, None)]
  /\ UNCHANGED << now, client, usage_log, auto_replies, users, task,
                  delivered, usage0, accepted, probe, features >>

\* disable_channel_setting(g, col): UPDATE settings SET {col} = NULL WHERE guild_id = ?  (no row, no change)
disable_channel_setting(g, col) ==
  /\ settings[g] # NoRow
  /\ settings' = [settings EXCEPT ![g] = SetColumn(@, col, None)]
  /\ UNCHANGED << now, client, usage_log, auto_replies, users, task,
                  delivered, usage0, accepted, probe, features >>

\* /auto_reply_add: INSERT INTO auto_replies
auto_reply_add(g, trigger) ==
  /\ auto_replies' = auto_replies \cup {<< g, trigger >>}
  /\ UNCHANGED << now, client, usage_log, settings, users, task, delivered,
                  usage0, accepted, probe, features >>

\* /auto_reply_remove: DELETE FROM auto_replies WHERE guild_id = ? AND trigger = ?
auto_reply_remove(g, trigger) ==
  /\ << g, trigger >> \in auto_replies
  /\ auto_replies' = auto_replies \ {<< g, trigger >>}
  /\ UNCHANGED << now, client, usage_log, settings, users, task, delivered,
                  usage0, accepted, probe, features >>

\* time passes
Tick ==
  /\ now + TickHours <= MaxNow
  /\ now' = now + TickHours
  /\ UNCHANGED << client, usage_log, settings, auto_replies, users, task,
                  delivered, usage0, accepted, probe, features >>

(***************************************************************************)
(* The steps every on_message coroutine takes after its dispatch           *)
(***************************************************************************)
Step(h) ==
  \/ \E ok \in BOOLEAN : check_moderation_delete(h, ok)
  \/ \E ok \in BOOLEAN : check_moderation_send(h, ok)
  \/ get_auto_reply(h)
  \/ \E ok \in BOOLEAN : auto_reply_send(h, ok)
  \/ get_channel_setting(h)
  \/ check_usage_select(h)
  \/ check_usage_write(h)
  \/ \E ok \in BOOLEAN : handle_chat_reply_quota(h, ok)
  \/ \E ok \in BOOLEAN : handle_chat_typing(h, ok)
  \/ \E f \in 0 .. MaxFailures, n \in RespLens : call_gpt_return(h, f, n)
  \/ \E ok \in BOOLEAN : handle_chat_reply(h, ok)
  \/ add_xp_select(h)
  \/ add_xp_write(h)
  \/ \E ok \in BOOLEAN : levelup_send(h, ok)

(***************************************************************************)
(* Spec: messages of every kind handled one at a time, while administrators *)
(* change the auto-chat channel and the auto-reply triggers.               *)
(***************************************************************************)
\* check_moderation looks at the administrator permission only to exempt a
\* message from the invite filter
Inbox == {m \in Messages : m.author = "u1" /\ (m.admin => HasInvite(m.content))}

Init ==
  /\ InitCommon
  /\ client \in BOOLEAN
  /\ usage_log \in [Users \X Days -> PersistedCounts]
  /\ \A k \in Users \X Days :
       k[1] # "u1" \/ k[2] # JstDate(0) => usage_log[k] = NoRow
  /\ usage0 = usage_log
  /\ users \in [Users -> PersistedXp]
  /\ users["u2"] = NoRow

\* one message at a time: the next event is dispatched when no on_message
\* coroutine is in flight
Next ==
  \/ \E m \in Inbox :
       /\ delivered < MaxMessages
       /\ \A h \in Handlers : ~Busy(h)
       /\ on_message(1, m)
  \/ Step(1)
  \/ \E g \in Guilds, c \in Channels : set_auto_chat(g, c)
  \/ \E g \in Guilds : disable_auto_chat(g)
  \/ \E g \in Guilds, tr \in Triggers : auto_reply_add(g, tr)
  \/ \E g \in Guilds, tr \in Triggers : auto_reply_remove(g, tr)

Spec == Init /\ [][Next]_vars

(***************************************************************************)
(* Specifications of the chat responder alone: every message is a guild    *)
(* message that mentions the bot and has text, so on_message takes it      *)
(* through get_auto_reply and get_channel_setting into handle_chat.        *)
(***************************************************************************)
ChatInbox ==
  {m \in GuildMessages :
     ~m.bot /\ ~m.admin /\ m.channel = "c1" /\ m.content = <<"mention", "sp", "hi">>}

StepChat(h) ==
  \/ get_auto_reply(h)
  \/ get_channel_setting(h)
  \/ check_usage_select(h)
  \/ check_usage_write(h)
  \/ \E ok \in BOOLEAN : handle_chat_reply_quota(h, ok)
  \/ \E ok \in BOOLEAN : handle_chat_typing(h, ok)
  \/ \E f \in 0 .. MaxFailures, n \in RespLens : call_gpt_return(h, f, n)
  \/ \E ok \in BOOLEAN : handle_chat_reply(h, ok)
  \/ add_xp_select(h)
  \/ add_xp_write(h)
  \/ \E ok \in BOOLEAN : levelup_send(h, ok)

\* SpecQuota: a fresh database, one user, one day, one message at a time.
InitQuota ==
  /\ InitCommon
  /\ client = TRUE
  /\ usage_log = [k \in Users \X Days |-> NoRow]
  /\ usage0 = usage_log
  /\ users = [u \in Users |-> NoRow]

NextQuota ==
  \/ \E m \in ChatInbox :
       /\ m.author = "u1"
       /\ delivered < MaxSeqMessages
       /\ \A h \in Handlers : ~Busy(h)
       /\ on_message(1, m)
  \/ StepChat(1)

SpecQuota == InitQuota /\ [][NextQuota]_vars

\* SpecDay: one message at a time while the clock runs over midnight (JST).
InitDay ==
  /\ InitCommon
  /\ client = TRUE
  /\ usage_log \in [Users \X Days -> PersistedCounts]
  /\ \A k \in Users \X Days : k[2] # JstDate(0) => usage_log[k] = NoRow
  /\ usage0 = usage_log
  /\ users \in [Users -> PersistedXp]

NextDay ==
  \/ \E m \in ChatInbox :
       /\ delivered < MaxMessages
       /\ \A h \in Handlers : ~Busy(h)
       /\ on_message(1, m)
  \/ StepChat(1)
  \/ Tick

SpecDay == InitDay /\ [][NextDay]_vars

\* SpecRace: the dispatcher starts a coroutine per event, and their awaits
\* interleave.
InitRace ==
  /\ InitCommon
  /\ client = TRUE
  /\ usage_log \in [Users \X Days -> PersistedCounts]
  /\ \A k \in Users \X Days : k[2] # JstDate(0) => usage_log[k] = NoRow
  /\ usage0 = usage_log
  /\ users \in [Users -> PersistedXp]

NextRace ==
  \/ \E h \in Handlers, m \in ChatInbox :
       delivered < MaxMessages /\ on_message(h, m)
  \/ \E h \in Handlers : StepChat(h)

SpecRace == InitRace /\ [][NextRace]_vars

(***************************************************************************)
(* on_reaction_add (flag translation) and the /purge command, cut at their *)
(* awaits                                                                  *)
(***************************************************************************)
\* if user.bot: return; if emoji in FLAG_MAPPING: ... if content: translate
on_reaction_add(h, r) ==
  /\ ~Busy(h)
  /\ LET t == [IdleTask EXCEPT !.rx = r] IN
       SetTask(h, IF r.bot \/ ~r.flag \/ ~r.has_content THEN Return(t)
                  ELSE [t EXCEPT !.pc = "rx_translate", !.max_tokens = 1000])
  /\ delivered' = delivered + 1
  /\ UNCHANGED << now, client, usage_log, settings, auto_replies, users,
                  usage0, accepted, probe, features >>

\* trans = await ai_logic.translate(content, lang): call_gpt's text, or its
\* apology string when the provider call raises
translate_return(h, failing, n) ==
  /\ task[h].pc = "rx_translate"
  /\ SetTask(h, [task[h] EXCEPT !.pc = "rx_dm",
                                !.resp = call_gpt_result(client, failing, n),
                                !.oracle = failing,
                                !.calls = @ + call_gpt_calls(client, failing)])
  /\ UNCHANGED << now, client, usage_log, settings, auto_replies, users,
                  delivered, usage0, accepted, probe, features >>

\* try: await user.send(embed=embed)   except: -> the fallback
reaction_dm(h, ok) ==
  /\ task[h].pc = "rx_dm"
  /\ SetTask(h, IF ok THEN Return([task[h] EXCEPT !.sent = Append(@, "dm")])
                ELSE [task[h] EXCEPT !.pc = "rx_fallback"])
  /\ UNCHANGED << now, client, usage_log, settings, auto_replies, users,
                  delivered, usage0, accepted, probe, features >>

\* except: await reaction.message.channel.send("... DM送れんかったわ。"): the
\* send is inside the except clause, nothing guards it
reaction_fallback(h, ok) ==
  /\ task[h].pc = "rx_fallback"
  /\ SetTask(h, IF ok THEN Return([task[h] EXCEPT !.sent = Append(@, "public_notice")])
                ELSE Raise(task[h], "HTTPException"))
  /\ UNCHANGED << now, client, usage_log, settings, auto_replies, users,
                  delivered, usage0, accepted, probe, features >>

\* /purge: await interaction.response.defer(ephemeral=True)
purge(h, ok) ==
  /\ ~Busy(h)
  /\ SetTask(h, IF ok THEN [IdleTask EXCEPT !.pc = "purge_run"]
                ELSE Raise([IdleTask EXCEPT !.pc = "purge_defer"], "HTTPException"))
  /\ delivered' = delivered + 1
  /\ UNCHANGED << now, client, usage_log, settings, auto_replies, users,
                  usage0, accepted, probe, features >>

\* try: deleted = await ch.purge(limit=amount, check=check)
\* except Exception as e: -> the error report
purge_run(h, ok) ==
  /\ task[h].pc = "purge_run"
  /\ SetTask(h, [task[h] EXCEPT !.pc = IF ok THEN "purge_report" ELSE "purge_error"])
  /\ UNCHANGED << now, client, usage_log, settings, auto_replies, users,
                  delivered, usage0, accepted, probe, features >>

\* await interaction.followup.send(f"🗑️ {len(deleted)}件 削除完了"); a failure
\* of this send is caught by the same except clause
purge_report(h, ok) ==
  /\ task[h].pc = "purge_report"
  /\ SetTask(h, IF ok THEN Return([task[h] EXCEPT !.sent = Append(@, "purge_done")])
                ELSE [task[h] EXCEPT !.pc = "purge_error"])
  /\ UNCHANGED << now, client, usage_log, settings, auto_replies, users,
                  delivered, usage0, accepted, probe, features >>

\* except Exception as e: await interaction.followup.send(f"エラー: {e}"):
\* the text of the exception goes to the user
purge_error(h, ok) ==
  /\ task[h].pc = "purge_error"
  /\ SetTask(h, IF ok THEN Return([task[h] EXCEPT !.sent = Append(@, "exception_text")])
                ELSE Raise(task[h], "HTTPException"))
  /\ UNCHANGED << now, client, usage_log, settings, auto_replies, users,
                  delivered, usage0, accepted, probe, features >>

StepEvent(h) ==
  \/ \E f \in 0 .. MaxFailures, n \in RespLens : translate_return(h, f, n)
  \/ \E ok \in BOOLEAN : reaction_dm(h, ok)
  \/ \E ok \in BOOLEAN : reaction_fallback(h, ok)
  \/ purge_run(h, TRUE)
  \/ purge_run(h, FALSE)
  \/ \E ok \in BOOLEAN : purge_report(h, ok)
  \/ \E ok \in BOOLEAN : purge_error(h, ok)

(***************************************************************************)
(* SpecEvents: reactions and /purge commands, each event in its own task.  *)
(***************************************************************************)
InitEvents ==
  /\ InitCommon
  /\ client \in BOOLEAN
  /\ usage_log = [k \in Users \X Days |-> NoRow]
  /\ usage0 = usage_log
  /\ users = [u \in Users |-> NoRow]

NextEvents ==
  \/ \E h \in Handlers, r \in Reactions :
       delivered < MaxMessages /\ on_reaction_add(h, r)
  \/ \E h \in Handlers, ok \in BOOLEAN :
       delivered < MaxMessages /\ purge(h, ok)
  \/ \E h \in Handlers : StepEvent(h)

SpecEvents == InitEvents /\ [][NextEvents]_vars

(***************************************************************************)
(* SpecMode: chat messages whose texts the regulation analyzer classifies  *)
(* differently, handled one at a time.                                     *)
(***************************************************************************)
ModeContents ==
  { <<"mention", "sp", "hi">>, <<"mention", "sp", "reg">>,
    <<"mention", "sp", "reg", "qmark">>, <<"mention", "sp", "reg", "qkw">>,
    <<"mention", "sp", "hi", "qmark">> }

ModeInbox ==
  [author : {"u1"}, bot : {FALSE}, guild : Guilds, admin : {FALSE},
   channel : {"c1"}, content : ModeContents]

InitMode ==
  /\ InitCommon
  /\ client = TRUE
  /\ usage_log \in [Users \X Days -> PersistedCounts]
  /\ \A k \in Users \X Days :
       k[1] # "u1" \/ k[2] # JstDate(0) => usage_log[k] = NoRow
  /\ usage0 = usage_log
  /\ users \in [Users -> PersistedXp]
  /\ users["u2"] = NoRow

NextMode ==
  \/ \E m \in ModeInbox :
       /\ delivered < MaxMessages
       /\ \A h \in Handlers : ~Busy(h)
       /\ on_message(1, m)
  \/ StepChat(1)

SpecMode == InitMode /\ [][NextMode]_vars

(***************************************************************************)
(* SpecFn: the pure functions of the analyzer and of call_gpt, applied to  *)
(* arguments drawn from bounded sets.                                      *)
(***************************************************************************)
DetectTokens == {"reg", "qkw", "qmark", "desuka", "nl", "hi"}

Texts == UNION {[1 .. n -> DetectTokens] : n \in 0 .. MaxTextLen}

Models ==
  { GPT_MODEL, <<"o1", "-mini">>, <<"gpt-4", "o">>, <<"gpt-4", "o", "-mini">> }

\* the budgets the program passes: dictionary, translate, handle_chat, and
\* the analysis budget of BotConfig
TokenBudgets ==
  {500, 1000, NORMAL_CHAT_MAX_TOKENS, REGULATION_ANALYSIS_MAX_TOKENS}

\* analyzer.detect_regulation_question(message)
detect_regulation_question_call(message) ==
  /\ probe' = [NoProbe EXCEPT !.fn = "detect", !.message = message,
                              !.result = detect_regulation_question(message)]
  /\ UNCHANGED << now, client, usage_log, settings, auto_replies, users, task,
                  delivered, usage0, accepted, features >>

\* call_gpt up to its await: the request it hands to the executor
call_gpt_build(model, max_tokens) ==
  /\ probe' = [NoProbe EXCEPT !.fn = "params", !.model = model,
                              !.max_tokens = max_tokens,
                              !.params = call_gpt_params(model, max_tokens)]
  /\ UNCHANGED << now, client, usage_log, settings, auto_replies, users, task,
                  delivered, usage0, accepted, features >>

InitFn ==
  /\ InitCommon
  /\ client = TRUE
  /\ usage_log = [k \in Users \X Days |-> NoRow]
  /\ usage0 = usage_log
  /\ users = [u \in Users |-> NoRow]

NextFn ==
  \/ \E message \in Texts : detect_regulation_question_call(message)
  \/ \E model \in Models, max_tokens \in TokenBudgets :
       call_gpt_build(model, max_tokens)

SpecFn == InitFn /\ [][NextFn]_vars

\* a database init_database has just created, and no event yet
InitFresh ==
  /\ InitCommon
  /\ client = TRUE
  /\ usage_log = [k \in Users \X Days |-> NoRow]
  /\ usage0 = usage_log
  /\ users = [u \in Users |-> NoRow]

(***************************************************************************)
(* SpecClassify: the analyzer classifies texts while administrators change *)
(* the guild's auto-reply triggers.                                        *)
(***************************************************************************)
\* the tokens the three patterns of extract_regulation_target tell apart:
\* "w" an ordinary word, "sp" a blank, "he" 'へ' or 'への', "wo" 'を',
\* "nitsuite" 'について', "kisei" '規制', "qmark" '？', "nl" a newline
TargetTokens == {"w", "sp", "he", "wo", "nitsuite", "kisei", "qmark", "nl"}

\* one token more than MaxTextLen: the third pattern is the first to match
\* only when something that no group can hold stands before '規制'
TargetTexts == UNION {[1 .. n -> TargetTokens] : n \in 0 .. MaxTextLen + 1}

\* the analyzer is asked for the mode and the target of a text
classify_call(text) ==
  /\ probe' = [NoProbe EXCEPT !.fn = "classify", !.message = text,
                              !.mode = classify(text).mode,
                              !.target = classify(text).target]
  /\ UNCHANGED << now, client, usage_log, settings, auto_replies, users, task,
                  delivered, usage0, accepted, features >>

\* a text is classified, and the same text again later
NextClassify ==
  \/ probe.fn = "none" /\ \E text \in TargetTexts : classify_call(text)
  \/ probe.fn = "classify" /\ classify_call(probe.message)
  \/ \E g \in Guilds, tr \in Triggers : auto_reply_add(g, tr)
  \/ \E g \in Guilds, tr \in Triggers : auto_reply_remove(g, tr)

SpecClassify == InitFresh /\ [][NextClassify]_vars

(***************************************************************************)
(* on_raw_reaction_add and on_raw_reaction_remove (reaction roles and the  *)
(* starboard), cut at their awaits                                         *)
(***************************************************************************)
\* SELECT role_id FROM reaction_roles WHERE message_id = ? AND emoji = ?;
\* row[0] if row else None
get_reaction_role(m, emoji) ==
  IF \E r \in reaction_roles : r[1] = m /\ r[2] = emoji
  THEN (CHOOSE r \in reaction_roles : r[1] = m /\ r[2] = emoji)[3]
  ELSE None

\* Discord has added the reaction and dispatches the event:
\* if payload.member.bot: return; the coroutine runs up to get_reaction_role
on_raw_reaction_add(h, u, m, emoji, bot) ==
  /\ ~Busy(h)
  /\ LET t == [IdleTask EXCEPT
                 !.args = [user |-> u, message |-> m, emoji |-> emoji,
                           bot |-> bot, rid |-> None, count |-> 0]]
     IN SetTask(h, IF bot THEN Return(t) ELSE [t EXCEPT !.pc = "rr_get"])
  /\ hearts' = IF emoji = "heart" THEN [hearts EXCEPT ![m] = @ + 1] ELSE hearts
  /\ last_reaction' = IF emoji = "thumb" /\ ~bot
                      THEN [last_reaction EXCEPT ![u] = "add"]
                      ELSE last_reaction
  /\ delivered' = delivered + 1
  /\ UNCHANGED << now, client, usage_log, settings, auto_replies, users,
                  usage0, accepted, probe, starboard_log, starboard_posts,
                  remind_vars, member_roles, embed >>

\* if emoji == "❤️": msg = await channel.fetch_message(...), else the end of
\* the coroutine
reaction_add_heart(t) ==
  IF t.args.emoji = "heart" THEN [t EXCEPT !.pc = "sb_fetch"] ELSE Return(t)

\* rid = await self.db.get_reaction_role(payload.message_id, emoji)
\* if rid: role = ...get_role(rid); if role: await payload.member.add_roles
reaction_add_get_role(h) ==
  /\ task[h].pc = "rr_get"
  /\ LET rid == get_reaction_role(task[h].args.message, task[h].args.emoji)
     IN SetTask(h, IF rid # None
                   THEN [task[h] EXCEPT !.pc = "rr_add_roles", !.args.rid = rid]
                   ELSE reaction_add_heart(task[h]))
  /\ UNCHANGED << now, client, usage_log, settings, auto_replies, users,
                  delivered, usage0, accepted, probe, features >>

\* await payload.member.add_roles(role)
reaction_add_roles(h, ok) ==
  /\ task[h].pc = "rr_add_roles"
  /\ IF ok
     THEN /\ member_roles' =
               member_roles \cup {<< task[h].args.user, task[h].args.rid >>}
          /\ SetTask(h, reaction_add_heart(task[h]))
     ELSE /\ UNCHANGED member_roles
          /\ SetTask(h, Raise(task[h], "HTTPException"))
  /\ UNCHANGED << now, client, usage_log, settings, auto_replies, users,
                  delivered, usage0, accepted, probe, star_vars, remind_vars,
                  last_reaction, embed >>

\* msg = await channel.fetch_message(payload.message_id);
\* if reaction and reaction.count >= 10: await is_starboard_posted(msg.id)
starboard_fetch_message(h, ok) ==
  /\ task[h].pc = "sb_fetch"
  /\ LET count == hearts[task[h].args.message]
     IN SetTask(h,
          IF ~ok THEN Raise(task[h], "HTTPException")
          ELSE IF count >= STAR_THRESHOLD
          THEN [task[h] EXCEPT !.pc = "sb_posted", !.args.count = count]
          ELSE Return([task[h] EXCEPT !.args.count = count]))
  /\ UNCHANGED << now, client, usage_log, settings, auto_replies, users,
                  delivered, usage0, accepted, probe, features >>

\* if not await self.db.is_starboard_posted(msg.id):
starboard_is_posted(h) ==
  /\ task[h].pc = "sb_posted"
  /\ SetTask(h, IF task[h].args.message \in starboard_log
                THEN Return(task[h])
                ELSE [task[h] EXCEPT !.pc = "sb_setting"])
  /\ UNCHANGED << now, client, usage_log, settings, auto_replies, users,
                  delivered, usage0, accepted, probe, features >>

\* sb_id = await self.db.get_channel_setting(guild, "starboard_channel_id")
\* if sb_id: ... await sb_ch.send(...)
starboard_get_setting(h) ==
  /\ task[h].pc = "sb_setting"
  /\ SetTask(h, IF ColumnSetting("g1", 2) # None
                THEN [task[h] EXCEPT !.pc = "sb_send"]
                ELSE Return(task[h]))
  /\ UNCHANGED << now, client, usage_log, settings, auto_replies, users,
                  delivered, usage0, accepted, probe, features >>

\* await sb_ch.send(content="いいねがたくさん。殿堂入りやね！（茜）", embed=embed)
starboard_send(h, ok) ==
  /\ task[h].pc = "sb_send"
  /\ IF ok
     THEN /\ starboard_posts' =
               [starboard_posts EXCEPT ![task[h].args.message] = @ + 1]
          /\ SetTask(h, [task[h] EXCEPT !.pc = "sb_log",
                                        !.sent = Append(@, "starboard")])
     ELSE /\ UNCHANGED starboard_posts
          /\ SetTask(h, Raise(task[h], "HTTPException"))
  /\ UNCHANGED << now, client, usage_log, settings, auto_replies, users,
                  delivered, usage0, accepted, probe, starboard_log, hearts,
                  remind_vars, role_vars, embed >>

\* await self.db.add_starboard_log(msg.id): INSERT INTO starboard_log;
\* message_id is the PRIMARY KEY, IntegrityError if the row exists by now
add_starboard_log(h) ==
  /\ task[h].pc = "sb_log"
  /\ IF task[h].args.message \in starboard_log
     THEN /\ UNCHANGED starboard_log
          /\ SetTask(h, Raise(task[h], "IntegrityError"))
     ELSE /\ starboard_log' = starboard_log \cup {task[h].args.message}
          /\ SetTask(h, Return(task[h]))
  /\ UNCHANGED << now, client, usage_log, settings, auto_replies, users,
                  delivered, usage0, accepted, probe, starboard_posts, hearts,
                  remind_vars, role_vars, embed >>

\* Discord has removed the reaction and dispatches the event; the coroutine
\* runs up to get_reaction_role
on_raw_reaction_remove(h, u, m, emoji) ==
  /\ ~Busy(h)
  /\ SetTask(h, [IdleTask EXCEPT
                   !.pc = "rr_rm_get",
                   !.args = [user |-> u, message |-> m, emoji |-> emoji,
                             bot |-> FALSE, rid |-> None, count |-> 0]])
  /\ hearts' = IF emoji = "heart" THEN [hearts EXCEPT ![m] = @ - 1] ELSE hearts
  /\ last_reaction' = IF emoji = "thumb"
                      THEN [last_reaction EXCEPT ![u] = "remove"]
                      ELSE last_reaction
  /\ delivered' = delivered + 1
  /\ UNCHANGED << now, client, usage_log, settings, auto_replies, users,
                  usage0, accepted, probe, starboard_log, starboard_posts,
                  remind_vars, member_roles, embed >>

\* rid = await self.db.get_reaction_role(...); if rid: ... if member and role:
reaction_remove_get_role(h) ==
  /\ task[h].pc = "rr_rm_get"
  /\ LET rid == get_reaction_role(task[h].args.message, task[h].args.emoji)
     IN SetTask(h, IF rid # None
                   THEN [task[h] EXCEPT !.pc = "rr_remove_roles", !.args.rid = rid]
                   ELSE Return(task[h]))
  /\ UNCHANGED << now, client, usage_log, settings, auto_replies, users,
                  delivered, usage0, accepted, probe, features >>

\* await member.remove_roles(role)
reaction_remove_roles(h, ok) ==
  /\ task[h].pc = "rr_remove_roles"
  /\ IF ok
     THEN /\ member_roles' =
               member_roles \ {<< task[h].args.user, task[h].args.rid >>}
          /\ SetTask(h, Return(task[h]))
     ELSE /\ UNCHANGED member_roles
          /\ SetTask(h, Raise(task[h], "HTTPException"))
  /\ UNCHANGED << now, client, usage_log, settings, auto_replies, users,
                  delivered, usage0, accepted, probe, star_vars, remind_vars,
                  last_reaction, embed >>

\* /setup_starboard: set_channel_setting(guild, "starboard_channel_id", c)
setup_starboard(g, c) ==
  /\ settings' = [settings EXCEPT ![g] = SetColumn(@, 2, c)]
  /\ UNCHANGED << now, client, usage_log, auto_replies, users, task,
                  delivered, usage0, accepted, probe, features >>

\* SpecStar: heart reactions on one message, handled concurrently, while an
\* administrator configures the starboard
StepStar(h) ==
  \/ reaction_add_get_role(h)
  \/ \E ok \in BOOLEAN : starboard_fetch_message(h, ok)
  \/ starboard_is_posted(h)
  \/ starboard_get_setting(h)
  \/ \E ok \in BOOLEAN : starboard_send(h, ok)
  \/ add_starboard_log(h)

NextStar ==
  \/ \E h \in Handlers, u \in Users, m \in StarMessages, bot \in BOOLEAN :
       delivered < MaxMessages /\ on_raw_reaction_add(h, u, m, "heart", bot)
  \/ \E h \in Handlers : StepStar(h)
  \/ \E g \in Guilds : setup_starboard(g, "c2")
  \/ \E g \in Guilds : disable_channel_setting(g, 2)

SpecStar == InitFresh /\ [][NextStar]_vars

\* SpecRoles: a member adds and removes the reaction that is mapped to a
\* role; Discord dispatches the events in the order they happened, and their
\* handlers run concurrently
StepRoles(h) ==
  \/ reaction_add_get_role(h)
  \/ \E ok \in BOOLEAN : reaction_add_roles(h, ok)
  \/ reaction_remove_get_role(h)
  \/ \E ok \in BOOLEAN : reaction_remove_roles(h, ok)

NextRoles ==
  \/ \E h \in Handlers, u \in Users, m \in StarMessages :
       /\ delivered < MaxMessages
       /\ last_reaction[u] # "add"
       /\ on_raw_reaction_add(h, u, m, "thumb", FALSE)
  \/ \E h \in Handlers, u \in Users, m \in StarMessages :
       /\ delivered < MaxMessages
       /\ last_reaction[u] = "add"
       /\ on_raw_reaction_remove(h, u, m, "thumb")
  \/ \E h \in Handlers : StepRoles(h)

SpecRoles == InitFresh /\ [][NextRoles]_vars

(***************************************************************************)
(* SpecRemind: /remind and the reminder_task loop, check_reminders cut at  *)
(* its awaits, while time passes                                           *)
(***************************************************************************)
\* the channels a reminder is for: one the bot can send to, and one that
\* get_channel does not find any more
ReminderChannels == {"c1", "gone"}

\* the delays /remind is given, in units of the clock
Delays == {0, TickHours}

\* /remind: add_reminder(user, channel, message, minutes):
\* end = now + minutes; INSERT INTO reminders (AUTOINCREMENT id)
remind(ch, minutes) ==
  /\ reminder_seq < MaxReminders
  /\ LET row == [id |-> reminder_seq + 1, channel |-> ch, end |-> now + minutes]
     IN /\ reminders' = reminders \cup {row}
        /\ created' = [created EXCEPT ![row.id] = row]
  /\ reminder_seq' = reminder_seq + 1
  /\ UNCHANGED << now, client, usage_log, settings, auto_replies, users, task,
                  delivered, usage0, accepted, probe, reminded, reminder_loop,
                  star_vars, role_vars, embed >>

\* the rows of a set in the order of their ids
RECURSIVE RowsById(_)
RowsById(rows) ==
  IF rows = {} THEN << >>
  ELSE LET first == CHOOSE r \in rows : \A q \in rows : r.id <= q.id
       IN << first >> \o RowsById(rows \ {first})

\* SELECT ... FROM reminders WHERE end_time <= ?
DueRows(at) == {r \in reminders : r.end <= at}

\* DELETE FROM reminders WHERE id IN (ids of the rows returned)
DeletedRowsDue(rows, at) == DueRows(at)

DeletedRows(rows, at) ==
  {r \in reminders : \E i \in 1 .. Len(rows) : rows[i].id = r.id}

\* reminder_task runs: now = datetime.now(JST).isoformat(); the SELECT of
\* check_reminders; if rows: ... else return rows
check_reminders_select ==
  /\ reminder_loop.pc = "sleep"
  /\ ~reminder_loop.stopped
  /\ reminder_loop' =
       [reminder_loop EXCEPT
          !.at = now,
          !.rows = RowsById(DueRows(now)),
          !.pc = IF DueRows(now) = {} THEN "sleep" ELSE "delete"]
  /\ UNCHANGED << now, client, usage_log, settings, auto_replies, users, task,
                  delivered, usage0, accepted, probe, reminders, reminder_seq,
                  created, reminded, star_vars, role_vars, embed >>

\* ids = [r[0] for r in rows]; DELETE ...; commit; return rows
check_reminders_delete ==
  /\ reminder_loop.pc = "delete"
  /\ reminders' = reminders \ DeletedRows(reminder_loop.rows, reminder_loop.at)
  /\ reminder_loop' = [reminder_loop EXCEPT !.pc = "send"]
  /\ UNCHANGED << now, client, usage_log, settings, auto_replies, users, task,
                  delivered, usage0, accepted, probe, reminder_seq, created,
                  reminded, star_vars, role_vars, embed >>

\* for r in reminders: ch = self.get_channel(r[2]); if ch: await ch.send(...)
\* An exception of send leaves reminder_task: the loop of discord.ext.tasks
\* ends on an exception it was not told to retry on.
reminder_task_send(ok) ==
  /\ reminder_loop.pc = "send"
  /\ LET r == Head(reminder_loop.rows)
         rest == Tail(reminder_loop.rows)
         next == [reminder_loop EXCEPT
                    !.rows = rest,
                    !.pc = IF rest = << >> THEN "sleep" ELSE "send"]
     IN IF r.channel = "gone"
        THEN /\ reminder_loop' = next
             /\ UNCHANGED reminded
        ELSE IF ok
        THEN /\ reminder_loop' = next
             /\ reminded' = [reminded EXCEPT ![r.id] = Append(@, now)]
        ELSE /\ reminder_loop' =
                  [reminder_loop EXCEPT !.rows = << >>, !.pc = "sleep",
                                        !.failed = r.id, !.stopped = TRUE]
             /\ UNCHANGED reminded
  /\ UNCHANGED << now, client, usage_log, settings, auto_replies, users, task,
                  delivered, usage0, accepted, probe, reminders, reminder_seq,
                  created, star_vars, role_vars, embed >>

NextRemind ==
  \/ \E ch \in ReminderChannels, minutes \in Delays : remind(ch, minutes)
  \/ check_reminders_select
  \/ check_reminders_delete
  \/ \E ok \in BOOLEAN : reminder_task_send(ok)
  \/ Tick

SpecRemind == InitFresh /\ [][NextRemind]_vars

(***************************************************************************)
(* SpecSchedule: /schedule and the two buttons of ScheduleView             *)
(***************************************************************************)
\* the names of the two fields /schedule adds: "参加" and "不参加"; a name is
\* the sequence of its pieces
FieldNames == << << "sanka" >>, << "fusanka" >> >>

\* the status a button passes to update: join "参加", leave "不参加"
Statuses == {"sanka", "fusanka"}

\* target = f"【{status}】"
Target(status) == << "[[", status, "]]" >>

\* embed.add_field(name="参加", value="なし"); add_field(name="不参加", ...): a
\* value is the sequence of its lines, a line "nashi" or a member's mention
NewEmbed == [k \in 1 .. 2 |-> [name |-> FieldNames[k], value |-> << "nashi" >>]]

\* lines = [l for l in field.value.split('\n')
\*          if user.mention not in l and "なし" not in l]
RECURSIVE KeepLines(_, _)
KeepLines(lines, u) ==
  IF lines = << >> THEN << >>
  ELSE IF Head(lines) \in {u, "nashi"} THEN KeepLines(Tail(lines), u)
  ELSE << Head(lines) >> \o KeepLines(Tail(lines), u)

\* if field.name == target: lines.append(f"• {user.mention}")
\* val = '\n'.join(lines) if lines else "なし"
UpdateField(field, u, status) ==
  LET lines == IF field.name = Target(status)
               THEN Append(KeepLines(field.value, u), u)
               ELSE KeepLines(field.value, u)
  IN [name |-> field.name,
      value |-> IF lines = << >> THEN << "nashi" >> ELSE lines]

\* /schedule: await interaction.response.send_message(embed=embed, view=...)
schedule ==
  /\ embed = NoEmbed
  /\ embed' = NewEmbed
  /\ UNCHANGED << now, client, usage_log, settings, auto_replies, users, task,
                  delivered, usage0, accepted, probe, star_vars, remind_vars,
                  role_vars >>

\* a member presses a button: join or leave calls update(i, status), which
\* builds new_fields from the embed the interaction carries and runs up to
\* edit_message
schedule_update(h, u, status) ==
  /\ ~Busy(h)
  /\ embed # NoEmbed
  /\ SetTask(h, [IdleTask EXCEPT
                   !.pc = "sch_edit",
                   !.args = [user |-> u, status |-> status,
                             fields |-> [k \in 1 .. 2 |->
                                           UpdateField(embed[k], u, status)]]])
  /\ delivered' = delivered + 1
  /\ UNCHANGED << now, client, usage_log, settings, auto_replies, users,
                  usage0, accepted, probe, features >>

\* await i.response.edit_message(embed=new_embed)
schedule_edit_message(h, ok) ==
  /\ task[h].pc = "sch_edit"
  /\ IF ok
     THEN /\ embed' = task[h].args.fields
          /\ SetTask(h, Return(task[h]))
     ELSE /\ UNCHANGED embed
          /\ SetTask(h, Raise(task[h], "HTTPException"))
  /\ UNCHANGED << now, client, usage_log, settings, auto_replies, users,
                  delivered, usage0, accepted, probe, star_vars, remind_vars,
                  role_vars >>

\* members press the buttons; every press is an interaction of its own
NextSchedule ==
  \/ schedule
  \/ \E h \in Handlers, u \in Users, status \in Statuses :
       delivered < MaxMessages + 1 /\ schedule_update(h, u, status)
  \/ \E h \in Handlers, ok \in BOOLEAN : schedule_edit_message(h, ok)

SpecSchedule == InitFresh /\ [][NextSchedule]_vars

(***************************************************************************)
(* SpecSettings: the /set_* and /disable_* commands of administrators,     *)
(* set_channel_setting cut at its awaits; each call has its own database   *)
(* connection, so the statements of two calls interleave.                  *)
(***************************************************************************)
\* the command calls set_channel_setting(g, col, c), which runs up to its
\* SELECT
set_channel_setting(h, g, col, c) ==
  /\ ~Busy(h)
  /\ SetTask(h, [IdleTask EXCEPT !.pc = "set_select", !.args = << g, col, c >>])
  /\ delivered' = delivered + 1
  /\ UNCHANGED << now, client, usage_log, settings, auto_replies, users,
                  usage0, accepted, probe, features >>

\* cursor = await db.execute("SELECT guild_id FROM settings WHERE guild_id = ?")
\* if await cursor.fetchone():
set_channel_setting_select(h) ==
  /\ task[h].pc = "set_select"
  /\ SetTask(h, [task[h] EXCEPT !.pc = "set_write",
                                !.row = settings[task[h].args[1]]])
  /\ UNCHANGED << now, client, usage_log, settings, auto_replies, users,
                  delivered, usage0, accepted, probe, features >>

\* UPDATE settings SET {col} = ? WHERE guild_id = ?, or INSERT INTO settings
\* (guild_id, {col}): guild_id is the PRIMARY KEY, IntegrityError if the row
\* exists by now; commit
set_channel_setting_write(h) ==
  /\ task[h].pc = "set_write"
  /\ LET t == task[h]
         g == t.args[1]
         col == t.args[2]
         c == t.args[3]
     IN IF t.row = NoRow /\ settings[g] # NoRow
        THEN /\ SetTask(h, Raise(t, "IntegrityError"))
             /\ UNCHANGED settings
        ELSE /\ settings' = [settings EXCEPT ![g] = SetColumn(@, col, c)]
             /\ SetTask(h, Return(t))
  /\ UNCHANGED << now, client, usage_log, auto_replies, users, delivered,
                  usage0, accepted, probe, features >>

NextSettings ==
  \/ \E h \in Handlers, g \in Guilds, col \in Columns, c \in Channels :
       delivered < MaxMessages /\ set_channel_setting(h, g, col, c)
  \/ \E h \in Handlers : set_channel_setting_select(h)
  \/ \E h \in Handlers : set_channel_setting_write(h)
  \/ \E g \in Guilds, col \in Columns : disable_channel_setting(g, col)

SpecSettings == InitFresh /\ [][NextSettings]_vars

(***************************************************************************)
(* Vocabulary of the properties                                            *)
(***************************************************************************)
\* the awaits inside handle_chat (check_usage and call_gpt included)
ResponderPcs ==
  {"usage_select", "usage_write", "reply_quota", "typing", "gpt_wait", "reply"}

\* the awaits of on_message that follow check_usage's verdict
PastGatePcs ==
  {"reply_quota", "typing", "gpt_wait", "reply", "xp_select", "xp_write",
   "levelup_send", "done"}

\* what handle_chat sends: the quota notice, a generated text, the apology
ChatKinds == {"quota", "gen", "apology"}

Sent(t) == {t.sent[i] : i \in 1 .. Len(t.sent)}

\* the text is made of mention tokens and white space only
OnlyMentions(content) ==
  \A i \in 1 .. Len(content) : content[i] \in {"mention", "sp"}

\* the coroutine has sent, or is about to send, or failed to send the quota
\* notice as its first message
QuotaNoticeAttempted(t) ==
  \/ t.pc = "reply_quota"
  \/ t.raised_at = "reply_quota"
  \/ (t.sent # <<>> /\ t.sent[1] = "quota")

\* nothing of the chat responder has happened in coroutine t
ResponderUntouched(t) ==
  /\ t.gate = None
  /\ t.calls = 0
  /\ t.resp = NoResp
  /\ ~t.typing
  /\ Sent(t) \cap ChatKinds = {}
  /\ t.raised_at \notin ResponderPcs

\* the reminder is still to come: in the table, or in the batch being sent
ReminderPending(id) ==
  \/ \E r \in reminders : r.id = id
  \/ \E i \in 1 .. Len(reminder_loop.rows) : reminder_loop.rows[i].id = id

(***************************************************************************)
(* C1 - under any interleaving of concurrently delivered chat messages of  *)
(* one user on one day, the quota gate accepts at most DAILY_MESSAGE_LIMIT *)
(* messages for that (user, day), and the stored count never exceeds the   *)
(* limit.  (SpecRace; refuted by the code: SELECT and UPDATE are separate  *)
(* awaits.)                                                                *)
(***************************************************************************)
C1_QuotaHoldsUnderConcurrency ==
  \A k \in Users \X Days :
    /\ CountOf(usage_log[k]) <= DAILY_MESSAGE_LIMIT
    /\ CountOf(usage0[k]) + accepted[k] <= DAILY_MESSAGE_LIMIT

(***************************************************************************)
(* C2 - when a message reaches the quota gate and the count of its         *)
(* (user, day) is at least DAILY_MESSAGE_LIMIT, check_usage rejects it     *)
(* without touching usage_log, handle_chat goes on to the quota notice and *)
(* stops: the coroutine makes no provider call, sends no other chat reply  *)
(* and none of its later steps changes usage_log.  (SpecRace)              *)
(***************************************************************************)
C2_RejectedState ==
  \A h \in Handlers :
    task[h].gate = "rejected" =>
      /\ task[h].pc \in PastGatePcs \ {"typing", "gpt_wait", "reply"}
      /\ task[h].calls = 0
      /\ task[h].resp = NoResp
      /\ ~task[h].typing
      /\ QuotaNoticeAttempted(task[h])
      /\ Sent(task[h]) \subseteq {"quota", "levelup"}

C2_GateStep ==
  \A h \in Handlers :
    ( /\ task[h].pc = "usage_select"
      /\ task'[h] # task[h]
      /\ CountOf(usage_log[<< task[h].msg.author, task[h].today >>])
           >= DAILY_MESSAGE_LIMIT )
    => /\ task'[h].gate = "rejected"
       /\ task'[h].pc = "reply_quota"
       /\ usage_log' = usage_log

C2_RejectedStep ==
  \A h \in Handlers :
    (task[h].gate = "rejected" /\ task'[h] # task[h])
    => (usage_log' = usage_log /\ accepted' = accepted)

C2_QuotaExhaustedStops ==
  /\ []C2_RejectedState
  /\ [][C2_GateStep /\ C2_RejectedStep]_vars

C2_Witness ==
  \E h \in Handlers :
    /\ task[h].pc = "done"
    /\ task[h].gate = "rejected"
    /\ task[h].sent = <<"quota">>
    /\ task[h].exc = None
    /\ usage_log[<< task[h].msg.author, task[h].today >>] = << DAILY_MESSAGE_LIMIT >>

(***************************************************************************)
(* C3 - with the messages of one user handled one at a time within one     *)
(* day, the quota gate accepts the 1st to the 100th message and rejects    *)
(* the 101st and every later one, which gets the quota notice; the stored  *)
(* count is the number of accepted messages.  (SpecQuota, where every      *)
(* delivered message has text and is addressed to the bot)                 *)
(***************************************************************************)
C3_HundredThenRejected ==
  /\ \A h \in Handlers :
       /\ task[h].pc \in PastGatePcs =>
            task[h].gate =
              IF delivered <= DAILY_MESSAGE_LIMIT THEN "accepted" ELSE "rejected"
       /\ task[h].pc = "usage_write" => delivered <= DAILY_MESSAGE_LIMIT
       /\ task[h].gate = "rejected" => QuotaNoticeAttempted(task[h])
  /\ \A k \in Users \X Days : CountOf(usage_log[k]) = accepted[k]

C3_Witness ==
  /\ delivered = DAILY_MESSAGE_LIMIT + 1
  /\ task[1].pc = "done"
  /\ task[1].gate = "rejected"
  /\ task[1].sent = <<"quota">>
  /\ accepted[<< "u1", 0 >>] = DAILY_MESSAGE_LIMIT
  /\ usage_log[<< "u1", 0 >>] = << DAILY_MESSAGE_LIMIT >>

(***************************************************************************)
(* C4 - no exception raised inside the chat responder (the quota gate, the *)
(* typing indicator, the provider call, the delivery of the reply, the     *)
(* path of a reply longer than 1900 characters) escapes on_message.        *)
(* (Spec; refuted by the code: handle_chat has no try, and io is not       *)
(* imported.)                                                              *)
(***************************************************************************)
C4_NoExceptionEscapesResponder ==
  \A h \in Handlers :
    task[h].exc = None \/ task[h].raised_at \notin ResponderPcs

(***************************************************************************)
(* C5 - call_gpt retries: a request whose first or second provider attempt *)
(* raises, the next one succeeding, returns the generated text, not the    *)
(* apology.  (Spec; refuted by the code: call_gpt makes one attempt.)      *)
(***************************************************************************)
C5_RetriedUntilSuccess ==
  \A h \in Handlers :
    (client /\ task[h].resp # NoResp /\ task[h].oracle \in {1, 2})
    => task[h].resp.kind = "gen"

(***************************************************************************)
(* C6 - if every provider attempt for a chat message raises (also when no  *)
(* client is configured), call_gpt returns the apology, the apology is     *)
(* what the responder sends, and no exception escapes the responder.       *)
(* (Spec; refuted by the code where message.reply fails, see C4.)          *)
(***************************************************************************)
C6_AllAttemptsRaised(t) ==
  t.resp # NoResp /\ (~client \/ t.oracle >= t.calls)

C6_ProviderFailureYieldsApology ==
  \A h \in Handlers :
    C6_AllAttemptsRaised(task[h]) =>
      /\ task[h].resp = Apology
      /\ task[h].pc = "reply" \/ "apology" \in Sent(task[h])
      /\ task[h].exc = None \/ task[h].raised_at \notin ResponderPcs

(***************************************************************************)
(* C7 - as claimed: every message of a non-bot author that is a direct     *)
(* message, or mentions the bot, or is posted in the configured auto-chat  *)
(* channel is processed by the chat responder: it reaches the quota gate   *)
(* and gets a generated reply or the quota notice.  (Spec; refuted:        *)
(* on_message drops direct messages, and moderation, auto-reply and empty  *)
(* texts end the handling before the gate.)                                *)
(***************************************************************************)
C7_Addressed(t) ==
  \/ t.msg.guild = None
  \/ MentionsBot(t.msg.content)
  \/ t.msg.channel = t.auto_chat_ch_id

C7_GuildMessageForResponder(t) ==
  /\ ~t.msg.bot
  /\ t.msg.guild \in Guilds
  /\ t.msg.admin \/ ~HasInvite(t.msg.content)
  /\ t.auto_res = None
  /\ MentionsBot(t.msg.content) \/ t.msg.channel = t.auto_chat_ch_id
  /\ ~OnlyMentions(t.msg.content)

C8_NotAddressed(t) ==
  /\ t.msg # NoMessage
  /\ \/ t.msg.bot
     \/ /\ t.msg.guild \in Guilds
        /\ ~MentionsBot(t.msg.content)
        /\ t.msg.channel # t.auto_chat_ch_id
        /\ t.pc \in {"xp_select", "xp_write", "levelup_send", "done"}

C8_State == \A h \in Handlers : C8_NotAddressed(task[h]) => ResponderUntouched(task[h])

C8_Step ==
  \A h \in Handlers :
    (task'[h] # task[h] /\ C8_NotAddressed(task'[h]))
    => (usage_log' = usage_log /\ accepted' = accepted)

C8_UnaddressedNeverReachResponder == []C8_State /\ [][C8_Step]_vars

C8_Witness ==
  \E h \in Handlers :
    /\ task[h].pc = "done"
    /\ task[h].exc = None
    /\ ~task[h].msg.bot
    /\ task[h].msg.content = <<"hi">>
    /\ task[h].msg.channel = "c1"
    /\ task[h].auto_chat_ch_id = None
    /\ settings["g1"] = << None, None >>
    /\ users[task[h].msg.author] # NoRow
    /\ ResponderUntouched(task[h])

(***************************************************************************)
(* C9 - as claimed: a message whose text is only mention tokens produces   *)
(* no outbound call at all while it is handled (no provider call, no       *)
(* message sent by the bot) and consumes no quota.  (Spec; refuted:        *)
(* on_message still grants XP and sends the level-up notice.)              *)
(***************************************************************************)
C9_MentionOnlyIsSilent ==
  \A h \in Handlers :
    (task[h].msg # NoMessage /\ ~task[h].msg.bot /\ task[h].msg.guild \in Guilds
       /\ OnlyMentions(task[h].msg.content))
    => (task[h].sent = <<>> /\ task[h].calls = 0 /\ task[h].gate = None)

(***************************************************************************)
(* C9, amended - a message whose text is only mention tokens and white     *)
(* space makes the chat responder return at once: no quota gate, no        *)
(* provider call, no typing indicator, no chat reply (generated text,      *)
(* apology or quota notice), usage_log untouched; the rest of on_message   *)
(* still acts on it: XP is granted and the level-up notice may be sent.    *)
(* (Spec)                                                                  *)
(***************************************************************************)
C9_State ==
  \A h \in Handlers :
    (task[h].msg # NoMessage /\ OnlyMentions(task[h].msg.content))
    => ResponderUntouched(task[h])

C9_Step ==
  \A h \in Handlers :
    (task'[h] # task[h] /\ task'[h].msg # NoMessage
       /\ OnlyMentions(task'[h].msg.content))
    => (usage_log' = usage_log /\ accepted' = accepted)

C9_MentionOnlySkipsResponder == []C9_State /\ [][C9_Step]_vars

C9_Witness ==
  \E h \in Handlers :
    /\ task[h].pc = "done"
    /\ task[h].msg.content = <<"mention", "sp">>
    /\ ~task[h].msg.bot
    /\ task[h].msg.guild \in Guilds
    /\ task[h].sent = <<"levelup">>
    /\ task[h].gate = None
    /\ usage_log = usage0

(***************************************************************************)
(* C10 - the day key of the quota gate is the calendar day in Tokyo of the *)
(* instant the gate is called, and the counter of a new day is fresh: a    *)
(* message handled after the date has changed is accepted whatever the     *)
(* count stored for the day before (100 included), the new day's count is  *)
(* the number of messages accepted that day (1 after the first), and the   *)
(* old day's row stays as it was.  (SpecDay, where fewer than              *)
(* DAILY_MESSAGE_LIMIT messages arrive on the new day)                     *)
(***************************************************************************)
C10_DayRollover ==
  /\ \A h \in Handlers :
       task[h].pc \in PastGatePcs =>
         /\ task[h].today = (task[h].at + JST_OFFSET) \div 24
         /\ task[h].today > 0 => task[h].gate = "accepted"
  /\ \A k \in Users \X Days :
       CountOf(usage_log[k]) =
         IF k[2] > 0 THEN accepted[k] ELSE CountOf(usage0[k]) + accepted[k]

C10_Witness ==
  \E h \in Handlers :
    /\ task[h].pc = "done"
    /\ task[h].gate = "accepted"
    /\ task[h].today = 1
    /\ usage0[<< task[h].msg.author, 0 >>] = << DAILY_MESSAGE_LIMIT >>
    /\ usage_log[<< task[h].msg.author, 0 >>] = << DAILY_MESSAGE_LIMIT >>
    /\ usage_log[<< task[h].msg.author, 1 >>] = << 1 >>

(***************************************************************************)
(* C11 - for every (user, day) key the stored usage count never decreases: *)
(* no step of the program lowers or deletes a row of usage_log that        *)
(* exists; a new day writes a new row and leaves the old one as it was.    *)
(* (SpecDay)                                                               *)
(***************************************************************************)
C11_CountNeverDecreases ==
  [][\A k \in Users \X Days :
       /\ CountOf(usage_log'[k]) >= CountOf(usage_log[k])
       /\ usage_log[k] # NoRow => usage_log'[k] # NoRow]_vars

C11_Witness ==
  \E u \in Users :
    /\ usage0[<< u, 0 >>] = << DAILY_MESSAGE_LIMIT - 1 >>
    /\ usage_log[<< u, 0 >>] = << DAILY_MESSAGE_LIMIT >>
    /\ usage_log[<< u, 1 >>] = << 1 >>

(***************************************************************************)
(* C12 - every call of the quota gate that finds the count below the limit *)
(* completes: it adds exactly 1 to the (user, day) count, creating the row *)
(* if absent, and returns acceptance; no call raises, so two concurrent    *)
(* first messages of a user leave the count at 2.  (SpecRace; refuted by   *)
(* the code: the second INSERT violates UNIQUE(user_id, date).)            *)
(***************************************************************************)
C12_GateCallCompletes ==
  /\ \A h \in Handlers :
       /\ task[h].raised_at # "usage_write"
       /\ (task[h].pc \in PastGatePcs /\ task[h].msg # NoMessage
             /\ task[h].gate # "rejected" /\ task[h].raised_at = None)
          => task[h].gate = "accepted"
  /\ \A k \in Users \X Days :
       CountOf(usage_log[k]) = CountOf(usage0[k]) + accepted[k]
  /\ \A u \in Users :
       (usage0[<< u, 0 >>] = NoRow
          /\ \A h \in Handlers : task[h].pc = "done" /\ task[h].msg.author = u)
       => usage_log[<< u, 0 >>] = << 2 >>

(***************************************************************************)
(* C13 - the generation call of the responder depends on the mode of the   *)
(* cleaned text: a text the analyzer classifies ANALYSIS is sent with the  *)
(* analysis prompt and REGULATION_ANALYSIS_MAX_TOKENS, a CASUAL one with   *)
(* the casual prompt and NORMAL_CHAT_MAX_TOKENS.  (SpecMode; refuted by    *)
(* the code: handle_chat never consults the analyzer.)                     *)
(***************************************************************************)
C13_ModeSelectsPromptAndBudget ==
  \A h \in Handlers :
    task[h].prompt # None =>
      IF detect_regulation_question(CleanContent(task[h].msg.content))
      THEN /\ task[h].prompt = "analysis"
           /\ task[h].max_tokens = REGULATION_ANALYSIS_MAX_TOKENS
      ELSE /\ task[h].prompt = "casual"
           /\ task[h].max_tokens = NORMAL_CHAT_MAX_TOKENS

(***************************************************************************)
(* C14 - detect_regulation_question(text) is True exactly when the text    *)
(* holds a regulation keyword and a question indicator (a question         *)
(* keyword, or a match of an interrogative pattern: a question mark that   *)
(* ends the text, or an interrogative particle in its first line); with    *)
(* only one of the two, or neither, it is False.  (SpecFn)                 *)
(***************************************************************************)
C14_Holds(text, tok) == tok \in {text[i] : i \in 1 .. Len(text)}

C14_LastVisible(text) ==
  IF text # <<>> /\ text[Len(text)] = "nl" THEN Len(text) - 1 ELSE Len(text)

C14_PatternMatches(text) ==
  \/ C14_LastVisible(text) > 0 /\ text[C14_LastVisible(text)] = "qmark"
  \/ \E i \in 1 .. Len(text) :
       text[i] = "desuka" /\ \A j \in 1 .. i - 1 : text[j] # "nl"

C14_Indicator(text) == C14_Holds(text, "qkw") \/ C14_PatternMatches(text)

C14_DetectIsKeywordAndIndicator ==
  probe.fn = "detect" =>
    /\ (C14_Holds(probe.message, "reg") /\ C14_Indicator(probe.message))
         => probe.result = TRUE
    /\ (C14_Holds(probe.message, "reg") /\ ~C14_Indicator(probe.message))
         => probe.result = FALSE
    /\ (~C14_Holds(probe.message, "reg") /\ C14_Indicator(probe.message))
         => probe.result = FALSE
    /\ (~C14_Holds(probe.message, "reg") /\ ~C14_Indicator(probe.message))
         => probe.result = FALSE

C14_Witness ==
  /\ probe.fn = "detect"
  /\ probe.message = << "reg", "qmark", "nl" >>
  /\ probe.result = TRUE

(***************************************************************************)
(* C15 - one length policy for generated replies: a reply of at most 1900  *)
(* characters is sent as it is in a single message, a longer one reaches   *)
(* the user as a file attachment with the full text, and no plain-text     *)
(* reply longer than 2000 characters is ever sent.  (Spec; refuted by the  *)
(* code: the file path raises NameError, module io is not imported.)       *)
(***************************************************************************)
C15_Delivered(t) ==
  t.pc = "done" /\ t.resp.kind = "gen" /\ t.exc # "HTTPException"

C15_OneLengthPolicy ==
  \A h \in Handlers :
    /\ C15_Delivered(task[h]) =>
         IF task[h].resp.len <= FILE_THRESHOLD
         THEN task[h].chunks = << task[h].resp.len >> /\ "gen" \in Sent(task[h])
         ELSE task[h].chunks = <<>> /\ "file" \in Sent(task[h])
    /\ \A i \in 1 .. Len(task[h].chunks) : task[h].chunks[i] <= 2000

(***************************************************************************)
(* C16 - as claimed: a generated reply longer than 2000 characters is      *)
(* delivered as a sequence of chunks, each of at most 2000 characters,     *)
(* whose concatenation is the generated string.  (Spec; refuted: the code  *)
(* has no chunking, a long reply takes the file path.)                     *)
(***************************************************************************)
RECURSIVE C16_Sum(_)
C16_Sum(s) == IF s = <<>> THEN 0 ELSE Head(s) + C16_Sum(Tail(s))

C16_LongReplyIsChunked ==
  \A h \in Handlers :
    (C15_Delivered(task[h]) /\ task[h].resp.len > 2000)
    => /\ task[h].chunks # <<>>
       /\ \A i \in 1 .. Len(task[h].chunks) : task[h].chunks[i] <= 2000
       /\ C16_Sum(task[h].chunks) = task[h].resp.len

(***************************************************************************)
(* C16, amended - a generated reply is never split: the responder sends at *)
(* most one plain-text message for it, that message is the whole generated *)
(* string and has at most 1900 characters; a string of more than 1900      *)
(* characters (so every one over the 2000-character limit) is not sent as  *)
(* plain text at all, it takes the file path.  (Spec)                      *)
(***************************************************************************)
C16_NeverSplit ==
  \A h \in Handlers :
    /\ Len(task[h].chunks) <= 1
    /\ Len(SelectSeq(task[h].sent, LAMBDA k : k \in {"gen", "apology"})) <= 1
    /\ task[h].chunks # <<>> =>
         /\ task[h].chunks = << task[h].resp.len >>
         /\ task[h].resp.len <= FILE_THRESHOLD
    /\ task[h].resp.len > FILE_THRESHOLD => task[h].pc \notin {"reply", "xp_select"}

C16_Witness ==
  \E h \in Handlers :
    /\ task[h].pc = "done"
    /\ task[h].resp = Generated(2001)
    /\ task[h].chunks = <<>>
    /\ Sent(task[h]) \cap ChatKinds = {}
    /\ task[h].raised_at = "gpt_wait"

(***************************************************************************)
(* C17 - the provider call is handed to a worker and awaited: while the    *)
(* call of one chat message is outstanding the event loop is free (every   *)
(* other coroutine in flight can take its next step, and a new event can   *)
(* be dispatched while events remain), steps of other handlers leave the   *)
(* waiting coroutine as it is, and the typing indicator of the message's   *)
(* channel is on for as long as the call is outstanding.  (SpecRace)       *)
(***************************************************************************)
C17_Outstanding(t) == t.pc = "gpt_wait"

C17_State ==
  \A h \in Handlers :
    C17_Outstanding(task[h]) =>
      /\ task[h].typing
      /\ \A o \in Handlers \ {h} :
           /\ Busy(o) => ENABLED StepChat(o)
           /\ (~Busy(o) /\ delivered < MaxMessages)
                => ENABLED (\E m \in ChatInbox : on_message(o, m))

C17_Step ==
  \A h \in Handlers :
    (C17_Outstanding(task[h]) /\ C17_Outstanding(task'[h]))
    => (task'[h] = task[h] /\ task'[h].typing)

C17_CallIsAwaitedOffLoop == []C17_State /\ [][C17_Step]_vars

C17_Witness ==
  \E h \in Handlers, o \in Handlers :
    /\ C17_Outstanding(task[h])
    /\ task[h].typing
    /\ task[o].pc = "done"
    /\ "gen" \in Sent(task[o])
    /\ ~task[o].typing
    /\ delivered = MaxMessages

(***************************************************************************)
(* C18 - every request call_gpt builds carries exactly one family of       *)
(* parameters, chosen by the model tag: for a model id holding "gpt-5" or  *)
(* "o1", reasoning_effort and max_completion_tokens and neither            *)
(* temperature nor max_tokens; for any other, temperature and max_tokens   *)
(* and neither of the former; the token value is the max_tokens argument.  *)
(* (SpecFn)                                                                *)
(***************************************************************************)
C18_Tagged(model) == {"gpt-5", "o1"} \cap {model[i] : i \in 1 .. Len(model)} # {}

C18_Families ==
  {"reasoning_effort", "max_completion_tokens", "temperature", "max_tokens"}

C18_OneParameterFamily ==
  probe.fn = "params" =>
    IF C18_Tagged(probe.model)
    THEN /\ DOMAIN probe.params \cap C18_Families
              = {"reasoning_effort", "max_completion_tokens"}
         /\ probe.params.max_completion_tokens = probe.max_tokens
    ELSE /\ DOMAIN probe.params \cap C18_Families = {"temperature", "max_tokens"}
         /\ probe.params.max_tokens = probe.max_tokens

C18_Witness ==
  /\ probe.fn = "params"
  /\ probe.model = << "o1", "-mini" >>
  /\ probe.max_tokens = 1000
  /\ "reasoning_effort" \in DOMAIN probe.params
  /\ "temperature" \notin DOMAIN probe.params

(***************************************************************************)
(* C19 - a flag reaction whose private message cannot be delivered falls   *)
(* back to a public notice in the message's channel, and no exception      *)
(* escapes on_reaction_add, whether the DM, the fallback or the            *)
(* translation fails.  (SpecEvents; refuted by the code: the fallback send *)
(* is unguarded.)                                                          *)
(***************************************************************************)
C19_ReactionNeverRaises ==
  \A h \in Handlers :
    task[h].rx # NoReaction =>
      /\ task[h].exc = None
      /\ (task[h].pc = "done" /\ task[h].resp # NoResp /\ "dm" \notin Sent(task[h]))
           => "public_notice" \in Sent(task[h])

(***************************************************************************)
(* C20 - no message the bot sends to a user holds the text of an exception *)
(* or an error code: a failure in a handler or command shows as a fixed    *)
(* apology only.  (SpecEvents; refuted by the code: /purge reports         *)
(* f"エラー: {e}".)                                                        *)
(***************************************************************************)
C20_NoExceptionTextSent ==
  \A h \in Handlers : "exception_text" \notin Sent(task[h])

(***************************************************************************)
(* C28: after any sequence of sequential add_xp(user, 10) calls the stored *)
(* record has level >= 1 and 0 <= xp < level * 100; the level never        *)
(* decreases; a call reports a level-up exactly when the xp before the     *)
(* call plus 10 reaches level * 100, and then the level grows by exactly 1 *)
(* and xp is reset to 0; otherwise the level stays and xp grows by 10.     *)
(***************************************************************************)
\* what get_user_level reports: (level, xp) of the row, (1, 0) without a row
C28_Level(row) == IF row = NoRow THEN 1 ELSE row[2]

C28_Xp(row) == IF row = NoRow THEN 0 ELSE row[1]

C28_Record ==
  \A u \in Users :
    users[u] # NoRow =>
      /\ users[u][2] >= 1
      /\ users[u][1] >= 0
      /\ users[u][1] < users[u][2] * 100

C28_Call ==
  \A u \in Users :
    /\ C28_Level(users'[u]) >= C28_Level(users[u])
    /\ users'[u] # users[u] =>
         IF C28_Xp(users[u]) + 10 >= C28_Level(users[u]) * 100
         THEN /\ users'[u] = << 0, C28_Level(users[u]) + 1 >>
              /\ task'[1].pc = "levelup_send"
         ELSE /\ users'[u] = << C28_Xp(users[u]) + 10, C28_Level(users[u]) >>
              /\ task'[1].pc # "levelup_send"

C28_SequentialXpRecord == []C28_Record /\ [][C28_Call]_vars

C28_Witness ==
  /\ users["u1"] = << 0, 4 >>
  /\ task[1].pc = "levelup_send"

(***************************************************************************)
(* C27: XP grants are never lost under concurrency: when several messages  *)
(* of one user are handled concurrently, the stored (xp, level) is what    *)
(* add_xp(10) once per message gives in some sequential order, each        *)
(* level-up is announced exactly once, and no add_xp call fails, two       *)
(* concurrent first messages of a new user included.  (SpecRace; refuted   *)
(* by the code: add_xp writes the values it computed from its own SELECT.) *)
(***************************************************************************)
\* the handler's add_xp call has written (a failure of the notice that
\* follows comes after the write)
C27_Granted(t) ==
  /\ t.msg # NoMessage
  /\ t.pc \in {"done", "levelup_send"}
  /\ t.raised_at \in {None, "levelup_send"}

\* the handler announces a level-up, or is about to
C27_Announces(t) ==
  \/ t.pc = "levelup_send"
  \/ t.raised_at = "levelup_send"
  \/ \E i \in DOMAIN t.sent : t.sent[i] = "levelup"

C27_XpGrantsNeverLost ==
  /\ \A h \in Handlers : task[h].raised_at # "xp_write"
  /\ \A u \in Users :
       (\A h \in Handlers : C27_Granted(task[h]) /\ task[h].msg.author = u)
       => \* two grants on no row, or on the persisted row (90, 1)
          /\ users[u] \in {<< 2 * XP_PER_MESSAGE, 1 >>, << XP_PER_MESSAGE, 2 >>}
          /\ ~ \A h \in Handlers : C27_Announces(task[h])

(***************************************************************************)
(* C22 - as claimed: a guild message of a non-administrator that contains  *)
(* an invite link is deleted and gets no further processing (no            *)
(* auto-reply, no chat responder, no quota, no XP, no command dispatch); a *)
(* message of an administrator is never deleted by moderation.  (Spec;     *)
(* refuted: on_message returns on a bot author before check_moderation, so *)
(* the invite link a bot posts stays.)                                     *)
(***************************************************************************)
\* check_moderation has asked Discord to delete the message of coroutine t
C22_DeleteRequested(t) ==
  \/ t.pc \in {"mod_delete", "mod_send"}
  \/ t.raised_at \in {"mod_delete", "mod_send"}
  \/ "warning" \in Sent(t)

\* on_message went no further than check_moderation
C22_NoFurtherProcessing(t) ==
  /\ t.pc \in {"mod_delete", "mod_send", "done"}
  /\ t.raised_at \in {None, "mod_delete", "mod_send"}
  /\ ResponderUntouched(t)
  /\ t.auto_res = None
  /\ Sent(t) \subseteq {"warning"}
  /\ ~t.dispatched

C22_InviteOfNonAdmin(m) ==
  m # NoMessage /\ m.guild \in Guilds /\ ~m.admin /\ HasInvite(m.content)

C22_InviteDeletedUnprocessed ==
  \A h \in Handlers :
    /\ C22_InviteOfNonAdmin(task[h].msg)
       => C22_DeleteRequested(task[h]) /\ C22_NoFurtherProcessing(task[h])
    /\ (task[h].msg # NoMessage /\ task[h].msg.admin)
       => ~C22_DeleteRequested(task[h])

(***************************************************************************)
(* C22, amended - a guild message of a non-bot, non-administrator author   *)
(* that contains an invite link goes straight to message.delete() and gets *)
(* no further processing: no auto-reply, no chat responder, no change of   *)
(* usage_log or users, no command dispatch, nothing sent but the warning;  *)
(* moderation never asks to delete a message of an administrator or of a   *)
(* bot, whatever its content.  (Spec)                                      *)
(***************************************************************************)
C22_State ==
  \A h \in Handlers :
    /\ (C22_InviteOfNonAdmin(task[h].msg) /\ ~task[h].msg.bot)
       => C22_DeleteRequested(task[h]) /\ C22_NoFurtherProcessing(task[h])
    /\ (task[h].msg # NoMessage /\ (task[h].msg.admin \/ task[h].msg.bot))
       => ~C22_DeleteRequested(task[h])

C22_Step ==
  \A h \in Handlers :
    (task'[h] # task[h] /\ C22_InviteOfNonAdmin(task'[h].msg)
       /\ ~task'[h].msg.bot)
    => (usage_log' = usage_log /\ users' = users)

C22_InviteModerated == []C22_State /\ [][C22_Step]_vars

C22_Witness ==
  /\ C22_InviteOfNonAdmin(task[1].msg)
  /\ ~task[1].msg.bot
  /\ task[1].pc = "done"
  /\ task[1].sent = << "warning" >>

(***************************************************************************)
(* C21: classification is deterministic and free of side effects: the mode *)
(* and the target the analyzer gave for a text are what it gives for the   *)
(* same text in every later state, whatever the bot did in between, and a  *)
(* call changes nothing of the bot or of the database.  (SpecClassify)     *)
(***************************************************************************)
C21_SameAnswer ==
  probe.fn = "classify" =>
    /\ probe.mode = classify(probe.message).mode
    /\ probe.target = classify(probe.message).target

C21_CallStep ==
  probe' # probe =>
    UNCHANGED << now, client, usage_log, settings, auto_replies, users, task,
                 delivered, usage0, accepted, features >>

C23_Completes(h) == task[h].pc = "set_write" /\ task'[h].pc = "done"

C23_Register ==
  /\ \A h \in Handlers :
       C23_Completes(h)
       => /\ task'[h].raised_at = None
          /\ ColumnSetting(task[h].args[1], task[h].args[2])' = task[h].args[3]
  /\ \A g \in Guilds, col \in Columns :
       ColumnSetting(g, col)' # ColumnSetting(g, col)
       => \/ \E h \in Handlers :
               C23_Completes(h) /\ task[h].args[1] = g /\ task[h].args[2] = col
          \/ ColumnSetting(g, col)' = None

C23_BothStored ==
  \A g \in Guilds :
    (/\ \A h \in Handlers : task[h].pc = "done" /\ task[h].args # << >>
     /\ task[1].args[1] = g /\ task[2].args[1] = g
     /\ task[1].args[2] # task[2].args[2])
    => \A h \in Handlers :
         ColumnSetting(g, task[h].args[2]) \in {task[h].args[3], None}

C23_SettingsAreRegisters ==
  /\ [][C23_Register]_vars
  /\ [](\A h \in Handlers : task[h].raised_at # "set_write")
  /\ []C23_BothStored

(***************************************************************************)
(* C24: a message is posted to the starboard at most once under any        *)
(* interleaving of the handlers of its heart reactions, and only when its  *)
(* heart count is at least 10 and a starboard channel is configured; every *)
(* post is followed by exactly one starboard_log entry, and no handler     *)
(* fails on inserting it.  (SpecStar; refuted by the code: the check of    *)
(* starboard_log and the INSERT are separate awaits.)                      *)
(***************************************************************************)
C24_StarboardPostsOnce ==
  /\ \A m \in StarMessages :
       /\ starboard_posts[m] <= 1
       /\ starboard_posts[m] > 0 => hearts[m] >= STAR_THRESHOLD
       /\ m \in starboard_log => starboard_posts[m] > 0
       /\ (starboard_posts[m] > 0 /\ \A h \in Handlers : ~Busy(h))
          => m \in starboard_log
  /\ \A h \in Handlers :
       /\ task[h].raised_at # "sb_log"
       /\ task[h].pc = "sb_send" => task[h].args.count >= STAR_THRESHOLD

(***************************************************************************)
(* C29: reaction roles follow the member's reaction: when a member adds a  *)
(* reaction that is mapped to a role and then removes it, the member does  *)
(* not hold the role once both handlers have finished, under any           *)
(* interleaving of the two; a member whose last event is the add holds the *)
(* role.  (SpecRoles; refuted by the code: the handlers of the two events  *)
(* run concurrently and remove_roles can be served before add_roles.)      *)
(***************************************************************************)
\* every handler has finished, none with a failed Discord call
C29_AllFinished ==
  \A h \in Handlers : ~Busy(h) /\ task[h].raised_at = None

C29_RoleFollowsReaction ==
  \A u \in Users :
    C29_AllFinished =>
      /\ last_reaction[u] = "remove" => << u, "r1" >> \notin member_roles
      /\ last_reaction[u] = "add" => << u, "r1" >> \in member_roles

(***************************************************************************)
(* C25: every reminder /remind created is delivered to its channel once    *)
(* its end time has passed, also when another reminder that is due in the  *)
(* same run of reminder_task cannot be sent or has no channel: so no       *)
(* reminder with a channel is ever gone from the table without having been *)
(* handed to send.  (SpecRemind; refuted by the code: check_reminders      *)
(* deletes the whole batch before the first send, and an exception of one  *)
(* send ends the loop over the batch.)                                     *)
(***************************************************************************)
C25_NoReminderLost ==
  \A id \in ReminderIds :
    (created[id] # NoRow /\ created[id].channel # "gone"
       /\ reminder_loop.failed # id)
    => ReminderPending(id) \/ reminded[id] # << >>

(***************************************************************************)
(* C26: no reminder is delivered before its end time, and none more than   *)
(* once: check_reminders returns only rows with end_time <= now and        *)
(* removes exactly the rows it returns, so a reminder added between its    *)
(* SELECT and its DELETE is neither deleted undelivered nor returned       *)
(* twice.  (SpecRemind)                                                    *)
(***************************************************************************)
C26_Ids(rows) == {rows[i].id : i \in 1 .. Len(rows)}

C26_State ==
  /\ \A id \in ReminderIds :
       /\ Len(reminded[id]) <= 1
       /\ \A i \in 1 .. Len(reminded[id]) : reminded[id][i] >= created[id].end
       /\ reminded[id] # << >> => ~ReminderPending(id)
  /\ \A r \in reminders : r.id \notin C26_Ids(reminder_loop.rows)
                          \/ reminder_loop.pc = "delete"
  /\ \A i \in 1 .. Len(reminder_loop.rows) :
       reminder_loop.rows[i].end <= reminder_loop.at

C26_Step ==
  /\ reminders \ reminders' # {}
     => {r.id : r \in reminders \ reminders'} = C26_Ids(reminder_loop.rows)
  /\ (reminder_loop.pc = "sleep" /\ reminder_loop'.pc = "delete")
     => C26_Ids(reminder_loop'.rows) = {r.id : r \in {q \in reminders : q.end <= now}}

C26_DeliveredOnceNotEarly == []C26_State /\ [][C26_Step]_vars

\* a reminder was delivered, and one that /remind added between the SELECT
\* and the DELETE of that run, due by then, is still in the table
C26_Witness ==
  /\ reminded[1] # << >>
  /\ \E r \in reminders : r.id = 2 /\ r.end <= reminded[1][1]
  /\ reminder_loop.pc = "sleep"

(***************************************************************************)
(* C30: on the message /schedule created, after a member presses the join  *)
(* button the member's mention is listed in the join field and not in the  *)
(* decline field, and the other way round after the decline button; after  *)
(* any sequence of presses each member is listed in at most one field, and *)
(* a field with no member shows the placeholder.  (SpecSchedule; refuted   *)
(* by the code: update compares the field name with "【status】", which no   *)
(* field is named, so no member is ever listed.)                           *)
(***************************************************************************)
C30_Listed(fields, k, u) ==
  \E i \in 1 .. Len(fields[k].value) : fields[k].value[i] = u

\* the position of the field a status belongs to
C30_FieldOf(status) == IF status = "sanka" THEN 1 ELSE 2

C30_Fields ==
  embed # NoEmbed =>
    /\ \A u \in Users : ~(C30_Listed(embed, 1, u) /\ C30_Listed(embed, 2, u))
    /\ \A k \in 1 .. 2 :
         (\A u \in Users : ~C30_Listed(embed, k, u))
         => embed[k].value = << "nashi" >>

C30_Press ==
  \A h \in Handlers :
    (task[h].pc = "sch_edit" /\ task'[h].pc = "done"
       /\ task'[h].raised_at = None)
    => /\ C30_Listed(embed', C30_FieldOf(task[h].args.status), task[h].args.user)
       /\ ~C30_Listed(embed', 3 - C30_FieldOf(task[h].args.status),
                      task[h].args.user)

C30_ButtonsMoveTheMember == []C30_Fields /\ [][C30_Press]_vars

(***************************************************************************)
(* C31 - as claimed: when the full content of a guild message equals a     *)
(* trigger configured for the guild, and moderation did not remove the     *)
(* message, the bot sends the configured response and stops: no chat       *)
(* responder, no quota, no XP, also when the message mentions the bot or   *)
(* is in the auto-chat channel; after auto_reply_remove of the trigger the *)
(* message is processed normally.  (Spec; refuted: on_message returns on a *)
(* bot author before it looks the trigger up, so a bot's message that      *)
(* equals a trigger gets no response.)                                     *)
(***************************************************************************)
\* the trigger table holds the message's content for its guild
C31_Configured(m) == << m.guild, m.content >> \in auto_replies

\* the dispatcher starts on_message in slot h in this step
C31_Dispatched(h) == ~Busy(h) /\ task'[h] # task[h]

\* a coroutine that found a response sends it and ends: nothing of the chat
\* responder, no dispatch to the commands, nothing sent but the response
C31_Stops(t) ==
  /\ t.pc \in {"auto_send", "done"}
  /\ t.raised_at \in {None, "auto_send"}
  /\ ResponderUntouched(t)
  /\ ~t.dispatched
  /\ Sent(t) \subseteq {"auto_reply"}
  /\ (t.pc = "done" /\ t.raised_at = None) => t.sent = << "auto_reply" >>

C31_Answered == \A h \in Handlers : task[h].auto_res # None => C31_Stops(task[h])

\* the lookup: the response if the trigger is configured now, the rest of
\* on_message if it is not (any more)
C31_Lookup(h) ==
  (task[h].pc = "get_auto_reply" /\ task'[h] # task[h])
  => IF C31_Configured(task[h].msg)
     THEN task'[h].pc = "auto_send" /\ task'[h].auto_res # None
     ELSE task'[h].pc = "get_setting" /\ task'[h].auto_res = None

\* no step of a coroutine that found a response touches the counts or the XP
C31_NoGrant(h) ==
  (task'[h] # task[h] /\ task'[h].auto_res # None)
  => (usage_log' = usage_log /\ users' = users)

C31_EveryTriggerLookedUp ==
  \A h \in Handlers :
    (C31_Dispatched(h) /\ task'[h].msg.guild \in Guilds
       /\ ~check_moderation_hits(task'[h].msg) /\ C31_Configured(task'[h].msg))
    => task'[h].pc = "get_auto_reply"

C31_TriggerAnsweredAndStops ==
  /\ []C31_Answered
  /\ [][\A h \in Handlers : C31_Lookup(h) /\ C31_NoGrant(h)]_vars
  /\ [][C31_EveryTriggerLookedUp]_vars

(***************************************************************************)
(* C31, amended - when the full content of a guild message of a non-bot    *)
(* author equals a trigger configured for the guild at the time on_message *)
(* looks it up, and moderation did not remove the message, the bot sends   *)
(* the configured response and stops: no chat responder, no change of      *)
(* usage_log or users, no command dispatch, also when the message mentions *)
(* the bot or is in the auto-chat channel; when the trigger is not         *)
(* configured (any more) at the lookup, on_message goes on normally; a     *)
(* message of a bot author gets no response.  (Spec)                       *)
(***************************************************************************)
C31_NonBotTriggerLookedUp ==
  \A h \in Handlers :
    (C31_Dispatched(h) /\ task'[h].msg.guild \in Guilds)
    => IF task'[h].msg.bot
       THEN task'[h].pc = "done" /\ task'[h].sent = << >>
       ELSE (~check_moderation_hits(task'[h].msg)
               /\ C31_Configured(task'[h].msg))
            => task'[h].pc = "get_auto_reply"

C31_NonBotTriggerAnswered ==
  /\ []C31_Answered
  /\ [][\A h \in Handlers : C31_Lookup(h) /\ C31_NoGrant(h)]_vars
  /\ [][C31_NonBotTriggerLookedUp]_vars

\* a message that mentions the bot and equals a trigger was answered with the
\* response, in the auto-chat channel, and the trigger has been removed since
C31_Witness ==
  /\ task[1].pc = "done"
  /\ task[1].auto_res # None
  /\ task[1].sent = << "auto_reply" >>
  /\ MentionsBot(task[1].msg.content)
  /\ ChannelSetting("g1") = task[1].msg.channel
  /\ ~C31_Configured(task[1].msg)

=============================================================================
